---- MODULE Spec2Model ----
(***************************************************************************)
(* AutoProf: profile generation, curve of growth and star finding.         *)
(*                                                                         *)
(* Three state machines share this module:                                 *)
(*   SpecCOG  SBprof_to_COG / SBprof_to_COG_errorprop applied to a         *)
(*            profile drawn from bounded sets, followed by the sentinel    *)
(*            substitution of _Generate_Profile;                           *)
(*   SpecGP   the radius loop of _Generate_Profile, its curve of growth    *)
(*            and the assembly of the profile table;                       *)
(*   SpecSF   the candidate loop of StarFind.                              *)
(*                                                                         *)
(* Numbers.  numpy floats are modelled as extended fixed-point values:     *)
(*   [k |-> "fin", v |-> n]  the finite number n/1000 (99999 is 99.999)    *)
(*   [k |-> "mag", v |-> f]  the finite magnitude zp - 2.5 log10(f) of the *)
(*                           positive flux f, kept exact by carrying f     *)
(*   [k |-> "inf", v |-> s]  +inf (s = 1) or -inf (s = -1)                 *)
(*   [k |-> "nan", v |-> 0]  NaN                                           *)
(* Fluxes, radii and areas are integers; axis ratios are in tenths and     *)
(* enclosed fluxes are carried in units of pi/10.                          *)
(***************************************************************************)
EXTENDS Integers, Sequences, FiniteSets, TLC

VARIABLES
    \* ---- SBprof_to_COG_errorprop and its caller (SpecCOG) ----
    cpc,        \* position: "input", "integrated", "done"
    cR,         \* R: radii in arcsec
    cSB,        \* SB: surface brightness per radius
    cSBE,       \* SBE: its uncertainty per radius
    cq,         \* axisratio per radius, in tenths
    cqE,        \* axisratioE per radius, in tenths
    cmethod,    \* method: 0 trapezoid, 1 piecewise constant
    csym,       \* symmetric_error
    cres,       \* what SBprof_to_COG_errorprop returned, with its COG_results
    ccols       \* the cumulative column and its error column of the table

VARIABLES
    \* ---- _Generate_Profile (SpecGP) ----
    gpc,        \* position: "loop", "cog", "table", "done"
    options,    \* the options read by _Generate_Profile
    results,    \* 'background noise' of the results dictionary
    gR,         \* R: radii in pixels
    gE,         \* E: ellipticity per radius, in tenths
    gEe,        \* Ee: its uncertainty per radius, in tenths
    gPA,        \* PA: position angle per radius, in milliradians
    gPAe,       \* PAe: its uncertainty per radius, in milliradians
    gi,         \* i: number of radii the loop has gone through
    count_neg,
    medflux,
    end_prof,   \* 0 stands for None
    sb, sbE, sbfix, sbfixE, pixels, cogdirect, Fmodes,
    sampler,    \* per processed radius, the sampler called: "extract" or "between"
    isovals,    \* per processed radius, what the sampler and the aggregator gave
    cogres,     \* what the curve-of-growth engine returned for sb
    cog, cogE, cogfix, cogfixE,
    header,     \* 'prof header'
    data        \* 'prof data'

VARIABLES
    \* ---- StarFind (SpecSF) ----
    sfpc,       \* position: "scan", "return", "done", "raised"
    IMGshape,   \* IMG.shape: <<rows, columns>>
    fwhm_guess,
    minsep,
    maxstars,   \* [inf |-> TRUE] for np.inf, else [inf |-> FALSE, n |-> the number]
    highpixels, \* the candidate pixels <<row, column>>, in the order of np.argwhere
    si,         \* i: number of candidates the loop has gone through
    centers,    \* the accepted centers <<x, y>>
    fwhms,
    peaks,
    verdict,    \* what became of the last candidate
    badcount,   \* badcount of the last candidate that went through the growth loop
    late,       \* candidates examined with len(fwhms) >= maxstars already
    catalog     \* the returned dictionary

VARIABLES
    \* ---- _iso_extract with a scalar radius (SpecIE) ----
    epc,        \* position: "start", "ellipse", "sampled", "returned", "raised"
    eshape,     \* IMG.shape: <<rows, columns>>
    ec,         \* c: the center [x, y], in tenths of a pixel
    esma,       \* sma, in tenths of a pixel
    eeps,       \* eps, in tenths
    epa,        \* pa, in milliradians
    emore,      \* more
    eN,         \* N
    etheta,     \* theta, in milliradians
    eX, eY,     \* X and Y, in tenths of a pixel
    ebox,       \* box, with the lengths of the spline's grids and the shape of its data
    eflux,      \* flux: per sample, where the image was read
    eret        \* the return value

VARIABLES
    \* ---- Isophote_Extract_Forced (SpecFE) ----
    fpc,        \* position: "read", "call", "sample", "done", "raised"
    fentry,     \* "pipeline": pipeline_steps/Isophote_Extract.py; "legacy": autoprofutils/Isophote_Extract.py
    fraw,       \* raw: the lines of the forcing file
    foptions,   \* ap_pixscale and ap_forced_pa_shift (0 when absent)
    fheader,    \* header
    force,      \* force: the columns read from the file
    fargs,      \* R, E, Ee, PA, PAe handed to _Generate_Profile
    fcalls,     \* the geometry of each sampler call made so far
    fraised,    \* the exception raised, "" if none
    ftable      \* the geometry columns of the table and the scale given to the curve of growth

VARIABLES
    \* ---- the image and the mask across the entry points (SpecEP) ----
    ppc,        \* position: "called", "profile", "sampled", "returned"
    pentry,     \* the entry point called
    IMG,        \* the caller's image
    mask,       \* the mask held in results
    background, \* the background level
    use_center, \* the center [x, y]
    psf,        \* the psf width
    dat,        \* the array the isophotes are sampled from
    preturn     \* what the entry point returns

VARIABLES
    \* ---- the radius grid and the geometry of Isophote_Extract (SpecRG) ----
    rpc,        \* position: "grid", "done"
    roptions,   \* the sampling options
    rresults,   \* 'psf fwhm', 'fit R', 'fit ellip', 'fit pa'
    rshape,     \* IMG.shape
    rR,         \* R
    rsteps,     \* the kind of each step taken by the loop: "geometric" or "linear"
    rE,         \* E
    rPA         \* PA

VARIABLES
    \* ---- the growth loop of StarFind (SpecGL) ----
    glpc,       \* position: "grow", "kept", "dropped"
    glprofile,  \* the pixel values by distance from the candidate
    glR,        \* R
    glflux,     \* flux
    glbadcount  \* badcount

VARIABLES
    \* ---- one row of the profile table (SpecPT) ----
    ptpc,       \* position: "row", "table", "none"
    ptentry,    \* the function that writes the row
    ptoptions,  \* ap_fluxunits and ap_pixscale
    ptin,       \* the measurements of the isophote
    ptrow       \* the entries written, by column: SB, SB_e, direct, direct_e

VARIABLES
    \* ---- sigma clipping of the samples of an isophote (SpecSC) ----
    scpc,       \* position: "samples", "clipped", "reclipped"
    scin,       \* the samples
    scnsigma,   \* sclip_nsigma
    sccap,      \* sclip_iterations
    scfirst,    \* the samples left by the clip
    scsecond    \* the samples left by a second clip of these

cogVars == <<cpc, cR, cSB, cSBE, cq, cqE, cmethod, csym, cres, ccols>>

gpVars == <<gpc, options, results, gR, gE, gEe, gPA, gPAe, gi, count_neg, medflux, end_prof,
            sb, sbE, sbfix, sbfixE, pixels, cogdirect, Fmodes, sampler, isovals,
            cogres, cog, cogE, cogfix, cogfixE, header, data>>

sfVars == <<sfpc, IMGshape, fwhm_guess, minsep, maxstars, highpixels, si, centers,
            fwhms, peaks, verdict, badcount, late, catalog>>

ieVars == <<epc, eshape, ec, esma, eeps, epa, emore, eN, etheta, eX, eY, ebox, eflux, eret>>

feVars == <<fpc, fentry, fraw, foptions, fheader, force, fargs, fcalls, fraised, ftable>>

epVars == <<ppc, pentry, IMG, mask, background, use_center, psf, dat, preturn>>

rgVars == <<rpc, roptions, rresults, rshape, rR, rsteps, rE, rPA>>

glVars == <<glpc, glprofile, glR, glflux, glbadcount>>

ptVars == <<ptpc, ptentry, ptoptions, ptin, ptrow>>

scVars == <<scpc, scin, scnsigma, sccap, scfirst, scsecond>>

vars == <<cogVars, gpVars, sfVars, ieVars, feVars, epVars, rgVars, glVars, ptVars, scVars>>

----------------------------------------------------------------------------
\* Bounds of the model

\* number of radii of a profile handed to the curve of growth
NPts == 6

\* N: number of Monte-Carlo trials (the unperturbed one included)
NTrials == 3

\* len(R) of a _Generate_Profile call
NRadii == 5

\* largest number of candidate pixels of a StarFind call
NCand == 3

\* largest finite maxstars of a StarFind call
MaxStars == 2

----------------------------------------------------------------------------
\* Extended numbers

Fin(n) == [k |-> "fin", v |-> n]
Mag(f) == [k |-> "mag", v |-> f]
NaN == [k |-> "nan", v |-> 0]
PInf == [k |-> "inf", v |-> 1]
NInf == [k |-> "inf", v |-> -1]

\* the sentinel 99.999
Sentinel == Fin(99999)

\* np.isfinite
isfinite(x) == x.k \in {"fin", "mag"}

\* the fractional bits of log2(y / 2^14), y in [2^14, 2^15), by repeated
\* squaring; w is the weight of the next bit
RECURSIVE FracLog2(_, _)
FracLog2(y, w) ==
    IF w = 0 THEN 0
    ELSE LET sq == (y * y) \div 16384
         IN  IF sq >= 32768 THEN w + FracLog2(sq \div 2, w \div 2)
             ELSE FracLog2(sq, w \div 2)

\* 256 * log2 of y * 2^(e - 14), y >= 1
RECURSIVE Log2Fix(_, _)
Log2Fix(y, e) ==
    IF y < 16384 THEN Log2Fix(2 * y, e - 1)
    ELSE IF y >= 32768 THEN Log2Fix(y \div 2, e + 1)
    ELSE 256 * e + FracLog2(y, 128)

\* 1000 * log10(n), rounded down to the fixed-point grid, for an integer n >= 1
Log10Milli(n) == (Log2Fix(n, 14) * 30103) \div 25600

\* the number a value stands for, in thousandths; zeropoint 22.5
MilliMag(f) == 22500 - ((5 * Log10Milli(f)) \div 2)

Num(x) == IF x.k = "mag" THEN Fin(MilliMag(x.v)) ELSE x

\* IEEE addition, subtraction, halving and absolute value, on numbers
AddNum(x, y) ==
    IF x.k = "nan" \/ y.k = "nan" THEN NaN
    ELSE IF x.k = "inf" /\ y.k = "inf" THEN (IF x.v = y.v THEN x ELSE NaN)
    ELSE IF x.k = "inf" THEN x
    ELSE IF y.k = "inf" THEN y
    ELSE Fin(x.v + y.v)

NegNum(x) == IF x.k = "nan" THEN NaN ELSE [k |-> x.k, v |-> 0 - x.v]

AbsNum(x) == IF x.k = "nan" THEN NaN ELSE [k |-> x.k, v |-> IF x.v < 0 THEN 0 - x.v ELSE x.v]

HalfNum(x) == IF x.k = "fin" THEN Fin(x.v \div 2) ELSE x

\* x * (p / 1000) for a fraction 0 <= p <= 1000
FracNum(x, p) ==
    IF x.k = "nan" THEN NaN
    ELSE IF x.k = "inf" THEN (IF p = 0 THEN NaN ELSE x)
    ELSE Fin((x.v * p) \div 1000)

\* x < y on floats: false as soon as one side is NaN
LtNum(x, y) ==
    IF x.k = "nan" \/ y.k = "nan" THEN FALSE
    ELSE IF x.k = "inf" THEN x.v = -1 /\ ~(y.k = "inf" /\ y.v = -1)
    ELSE IF y.k = "inf" THEN y.v = 1
    ELSE x.v < y.v

\* the same on values of any kind
Add(a, b) == AddNum(Num(a), Num(b))

Neg(a) == NegNum(Num(a))

Sub(a, b) == AddNum(Num(a), NegNum(Num(b)))

Abs(a) == AbsNum(Num(a))

Half(a) == HalfNum(Num(a))

Frac(a, p) == FracNum(Num(a), p)

Lt(a, b) == LtNum(Num(a), Num(b))

\* the order of two non-NaN values as numbers; a magnitude is larger where its
\* flux is smaller
Le(a, b) ==
    IF a.k = "mag" /\ b.k = "mag" THEN a.v >= b.v
    ELSE ~Lt(b, a)

----------------------------------------------------------------------------
\* Unit conversions of SharedFunctions.py (the band and the dummy distance
\* cancel between mag_to_L and L_to_mag)

\* flux of a magnitude
mag_to_L(m) ==
    IF m.k = "mag" THEN Fin(m.v)
    ELSE IF m.k = "nan" THEN NaN
    ELSE IF m.k = "inf" THEN (IF m.v = 1 THEN Fin(0) ELSE PInf)
    ELSE Fin(0)     \* a plain magnitude is the 99.999 sentinel: below one flux unit

\* magnitude of a flux: log10 of 0 is -inf and of a negative number NaN
L_to_mag(L) ==
    IF L.k = "nan" THEN NaN
    ELSE IF L.k = "inf" THEN (IF L.v = 1 THEN NInf ELSE NaN)
    ELSE IF L.v > 0 THEN Mag(L.v)
    ELSE IF L.v = 0 THEN PInf
    ELSE NaN

\* flux density of a surface brightness
muSB_to_ISB(mu) == mag_to_L(mu)

\* mu - 2.5 log10(A), the magnitude of the flux density mu over the area A
magperarcsec2_to_mag(mu, A) ==
    IF mu.k = "nan" \/ A < 0 THEN NaN
    ELSE IF A = 0 THEN (IF mu.k = "inf" /\ mu.v = -1 THEN NaN ELSE PInf)
    ELSE IF mu.k = "mag" THEN Mag(mu.v * A)
    ELSE IF mu.k = "inf" THEN mu
    ELSE Fin(mu.v - ((5 * Log10Milli(A)) \div 2))

----------------------------------------------------------------------------
\* SBprof_to_COG

\* 2 pi I R q at index k, in units of 2 pi / 10
Integrand(R, I, q, k) == I[k].v * R[k] * q[k]

\* trapz(2 pi I R q, R) over the first i points, in units of pi / 10
RECURSIVE trapz(_, _, _, _)
trapz(R, I, q, i) ==
    IF i <= 1 THEN 0
    ELSE trapz(R, I, q, i - 1)
         + (R[i] - R[i - 1]) * (Integrand(R, I, q, i - 1) + Integrand(R, I, q, i))

\* I = muSB_to_ISB(np.array(SB), band)
ISB(SB) == [k \in 1..Len(SB) |-> muSB_to_ISB(SB[k])]

\* trapz(...) + mag_to_L(m[0]); one NaN among the summed fluxes makes the sum NaN
TrapzFlux(R, I, q, L0, i) ==
    IF \E k \in 1..i : I[k].k # "fin" THEN NaN
    ELSE Add(Fin(trapz(R, I, q, i)), L0)

\* the enclosed flux behind m[i], before it is converted to a magnitude
RECURSIVE COG_flux(_, _, _, _, _)
COG_flux(R, SB, q, method, i) ==
    IF i = 1 THEN mag_to_L(magperarcsec2_to_mag(SB[1], q[1] * R[1] * R[1]))
    ELSE IF method = 0
    THEN TrapzFlux(R, ISB(SB), q, mag_to_L(magperarcsec2_to_mag(SB[1], q[1] * R[1] * R[1])), i)
    ELSE Add(Sub(mag_to_L(magperarcsec2_to_mag(SB[i], q[i] * R[i] * R[i])),
                 mag_to_L(magperarcsec2_to_mag(SB[i], q[i - 1] * R[i - 1] * R[i - 1]))),
             mag_to_L(L_to_mag(COG_flux(R, SB, q, method, i - 1))))

RECURSIVE COG_m(_, _, _, _, _)
COG_m(R, SB, q, method, n) ==
    IF n = 0 THEN <<>>
    ELSE Append(COG_m(R, SB, q, method, n - 1),
                IF n = 1 THEN magperarcsec2_to_mag(SB[1], q[1] * R[1] * R[1])
                ELSE L_to_mag(COG_flux(R, SB, q, method, n)))

SBprof_to_COG(R, SB, q, method) == COG_m(R, SB, q, method, Len(R))

----------------------------------------------------------------------------
\* SBprof_to_COG_errorprop

\* np.array of the first n entries of f
RECURSIVE array(_, _)
array(f, n) == IF n = 0 THEN <<>> ELSE Append(array(f, n - 1), f[n])

\* a selection that keeps every finite brightness, without the ceiling of 50
SB_CHOOSE_finite(SB) == {j \in 1..Len(SB) : isfinite(SB[j])}

\* the indices SB_CHOOSE keeps: np.logical_and(np.isfinite(SB), SB < 50)
SB_CHOOSE(SB) == {j \in 1..Len(SB) : isfinite(SB[j]) /\ Lt(SB[j], Fin(50000))}

\* a[SB_CHOOSE]: boolean-mask selection among the first n entries
RECURSIVE MaskedUpTo(_, _, _)
MaskedUpTo(a, S, n) ==
    IF n = 0 THEN <<>>
    ELSE IF n \in S THEN Append(MaskedUpTo(a, S, n - 1), a[n])
    ELSE MaskedUpTo(a, S, n - 1)

Masked(a, S) == MaskedUpTo(a, S, Len(a))

\* row[SB_CHOOSE] = vals on a row that starts filled with 99.999
Scatter(n, S, vals) ==
    array([j \in 1..n |->
              IF j \in S THEN vals[Cardinality({x \in S : x <= j})] ELSE Sentinel], n)

\* one draw of np.random.normal(loc = SB, scale = SBE): the flux of a finite
\* brightness times fb; a scale of zero returns loc
PerturbSB(SB, SBE, fb) ==
    [j \in 1..Len(SB) |->
        IF SB[j].k = "mag" /\ SBE[j] # Fin(0) THEN Mag(SB[j].v * fb) ELSE SB[j]]

\* one draw of np.random.normal(loc = axisratio, scale = axisratioE): zq sigma away
Perturbq(q, qE, zq) == [j \in 1..Len(q) |-> q[j] + zq * qE[j]]

\* the outcomes of one perturbed trial that the model draws
Draws == {[zq |-> 0, fb |-> 1], [zq |-> 0, fb |-> 2], [zq |-> -2, fb |-> 1]}

\* the index of the first smallest entry of a column without NaN
ArgMin(col) ==
    CHOOSE x \in 1..Len(col) :
        \A y \in 1..Len(col) : Le(col[x], col[y]) /\ (Le(col[y], col[x]) => x <= y)

\* the column without its entry at index x
Remove(col, x) ==
    array([j \in 1..(Len(col) - 1) |-> IF j < x THEN col[j] ELSE col[j + 1]], Len(col) - 1)

\* the smallest entry first, then the rest
First(col, x) == <<col[x]>>

\* np.sort of a column without NaN
RECURSIVE SortFrom(_, _)
SortFrom(col, x) ==
    IF Len(col) <= 1 THEN col
    ELSE First(col, x) \o SortFrom(Remove(col, x), ArgMin(Remove(col, x)))

SortCol(col) == IF Len(col) <= 1 THEN col ELSE SortFrom(col, ArgMin(col))

\* linear interpolation at position pos (in millionths) of the order statistics s
Interpolate(s, lo, fr) ==
    AddNum(Num(s[lo]), FracNum(AddNum(Num(s[IF lo < Len(s) THEN lo + 1 ELSE lo]), NegNum(Num(s[lo]))), fr))

\* np.quantile(col, q) with q in millionths: linear interpolation between the
\* two order statistics around q * (N - 1); NaN as soon as the column holds one
quantile(col, qppm) ==
    IF \E j \in 1..Len(col) : col[j].k = "nan" THEN NaN
    ELSE Interpolate(SortCol(col), ((qppm * (Len(col) - 1)) \div 1000000) + 1,
                     ((qppm * (Len(col) - 1)) % 1000000) \div 1000)

\* the middle order statistic, or the mean of the two middle ones
Middle(s, N) ==
    IF N % 2 = 1 THEN s[(N + 1) \div 2]
    ELSE Half(Add(s[N \div 2], s[(N \div 2) + 1]))

\* np.median(col); NaN as soon as the column holds one
median(col) ==
    IF \E j \in 1..Len(col) : col[j].k = "nan" THEN NaN
    ELSE Middle(SortCol(col), Len(col))

\* one row of COG_results: SBprof_to_COG on the kept radii, written into a row
\* that starts filled with 99.999
Trial(R, SB, q, S, method) ==
    Scatter(Len(R), S, SBprof_to_COG(Masked(R, S), Masked(SB, S), Masked(q, S), method))

\* COG_results: N rows, row 1 from the profile as given and row t + 1 from draw t
COG_results(R, SB, SBE, q, qE, method, draws) ==
    array([t \in 1..(Len(draws) + 1) |->
              IF t = 1 THEN Trial(R, SB, q, SB_CHOOSE(SB), method)
              ELSE Trial(R, PerturbSB(SB, SBE, draws[t - 1].fb),
                         Perturbq(q, qE, draws[t - 1].zq), SB_CHOOSE(SB), method)],
          Len(draws) + 1)

\* COG_results[:, j], read as numbers
Column(rows, j) == array([t \in 1..Len(rows) |-> Num(rows[t][j])], Len(rows))

\* a central profile taken as the median over the trials at every radius
COG_profile_median(rows) ==
    array([j \in 1..Len(rows[1]) |-> median(Column(rows, j))], Len(rows[1]))

\* the central profile: the first row of COG_results
COG_profile(rows) == rows[1]

\* the return value (None, None)
NoResult == [none |-> TRUE, results |-> <<>>, profile |-> <<>>, lower |-> <<>>,
             upper |-> <<>>, err |-> <<>>]

\* COG_lower and COG_upper at one radius, from the column of its trials
COG_lower(col) == Sub(median(col), quantile(col, 158655))

COG_upper(col) == Sub(quantile(col, 841345), median(col))

\* the profile and its uncertainty envelope condensed from the trials
Condense(rows, n, symmetric_error) ==
    [none |-> FALSE,
     results |-> rows,
     profile |-> COG_profile(rows),
     lower |-> IF symmetric_error THEN <<>>
               ELSE array([j \in 1..n |-> COG_lower(Column(rows, j))], n),
     upper |-> IF symmetric_error THEN <<>>
               ELSE array([j \in 1..n |-> COG_upper(Column(rows, j))], n),
     err |-> IF symmetric_error
             THEN array([j \in 1..n |->
                            Half(Abs(Add(COG_lower(Column(rows, j)), COG_upper(Column(rows, j)))))], n)
             ELSE <<>>]

\* what the function returns: none, or the profile with its error envelope
SBprof_to_COG_errorprop(R, SB, SBE, q, qE, method, symmetric_error, draws) ==
    IF Cardinality(SB_CHOOSE(SB)) < 5 THEN NoResult
    ELSE Condense(COG_results(R, SB, SBE, q, qE, method, draws), Len(R), symmetric_error)

----------------------------------------------------------------------------
\* _Generate_Profile, mag units: the cumulative column and its error column
\* made from what SBprof_to_COG_errorprop returned; lenR is len(R)

CogColumns(res, lenR) ==
    IF res.none
    THEN [cog |-> [j \in 1..lenR |-> Sentinel], cogE |-> [j \in 1..lenR |-> Sentinel]]
    ELSE LET c == [j \in 1..Len(res.profile) |->
                        IF isfinite(res.profile[j]) THEN res.profile[j] ELSE Sentinel]
         IN  [cog |-> c,
              cogE |-> [j \in 1..Len(res.err) |->
                           IF Lt(Fin(99000), c[j]) THEN Sentinel ELSE res.err[j]]]

----------------------------------------------------------------------------
\* _Generate_Profile, intensity units

\* fluxdens_to_fluxsum_errorprop: no result below 5 finite points, else the
\* enclosed flux by the trapezoid rule and an error per radius
fluxdens_to_fluxsum_errorprop(R, I, IE, q, qE) ==
    IF Cardinality({j \in 1..Len(I) : isfinite(I[j])}) < 5
    THEN NoResult
    ELSE [none |-> FALSE, results |-> <<>>,
          profile |-> [j \in 1..Len(R) |-> Fin(I[1].v * q[1] * R[1] * R[1] + trapz(R, I, q, j))],
          lower |-> <<>>, upper |-> <<>>,
          err |-> [j \in 1..Len(R) |-> Abs(Fin(IE[j].v * q[j] * R[j] * R[j]))]]

\* the cumulative column and its error column, intensity units
CogColumnsIntensity(res, lenR) ==
    IF res.none
    THEN [cog |-> [j \in 1..lenR |-> Fin(-99999)], cogE |-> [j \in 1..lenR |-> Fin(-99999)]]
    ELSE LET c == [j \in 1..Len(res.profile) |->
                      IF isfinite(res.profile[j]) THEN res.profile[j] ELSE Fin(-99999)]
         IN  [cog |-> c,
              cogE |-> [j \in 1..Len(res.err) |->
                           IF Lt(c[j], Fin(0)) THEN Fin(-99999) ELSE res.err[j]]]

----------------------------------------------------------------------------
\* _Generate_Profile: the loop over the radii

\* flux_to_sb(flux, pixscale, zeropoint) for flux > 0:
\* -2.5 log10(flux) + zeropoint + 2.5 log10(pixscale^2)
flux_to_sb(flux, pixscale) == Mag(flux \div (pixscale * pixscale))

\* flux_to_mag(flux, zeropoint) for flux > 0
flux_to_mag(flux) == Mag(flux)

\* np.sqrt of a sample count
RECURSIVE SqrtFrom(_, _)
SqrtFrom(n, r) == IF (r + 1) * (r + 1) > n THEN r ELSE SqrtFrom(n, r + 1)
sqrt(n) == SqrtFrom(n, 0)

\* a band width that is relative to the radius whatever the options say
isobandwidthRelative(opts, R_i) == R_i * 25

\* the width of the band around a radius, in thousandths of a pixel;
\* ap_isoband_width is absent from the options
isobandwidth(opts, R_i) == IF opts.isoband_fixed THEN 500 ELSE R_i * 25

\* a band rule that looks at the width only, not at the previous flux
UseBandByWidth(prevflux, noise, width) == ~(width < 500)

\* whether the radius is sampled as a band (_iso_between) and not as a single
\* contour (_iso_extract); ap_isoband_start is absent from the options
UseBand(prevflux, noise, width) == ~(Lt(Fin(noise * 2), prevflux) \/ width < 500)

\* a count of consecutive non-positive radii: back to zero on a positive flux
CountNegConsecutive(count, flux) == IF flux <= 0 THEN count + 1 ELSE 0

\* count_neg after a radius whose aggregated flux is flux
CountNeg(count, flux) == IF flux <= 0 THEN count + 1 ELSE count

\* a break that does not wait for ap_truncate_evaluation
TruncatesUnasked(opts, count) == count >= 2

\* whether the loop breaks after the radius
Truncates(opts, count) == opts.truncate /\ count >= 2

\* a brightness entry converted without looking at the sign of the flux
SBEntryUnguarded(opts, flux) ==
    IF opts.fluxunits = "intensity" THEN Fin(flux \div (opts.pixscale * opts.pixscale))
    ELSE L_to_mag(Fin(flux \div (opts.pixscale * opts.pixscale)))

\* the brightness recorded for an aggregated flux, and its uncertainty
SBEntry(opts, flux) ==
    IF opts.fluxunits = "intensity" THEN Fin(flux \div (opts.pixscale * opts.pixscale))
    ELSE IF flux > 0 THEN flux_to_sb(flux, opts.pixscale) ELSE Sentinel

SBErrEntry(opts, flux, scat, n) ==
    IF opts.fluxunits = "intensity" THEN Fin(scat \div sqrt(n))
    ELSE IF flux > 0 THEN Fin((2500 * scat * 1000) \div (sqrt(n) * flux * 2303)) ELSE Sentinel

\* the direct cumulative entry for the flux summed inside the radius
CogDirectEntry(opts, isotot) ==
    IF opts.fluxunits = "intensity" THEN Fin(isotot)
    ELSE IF isotot > 0 THEN flux_to_mag(isotot) ELSE Sentinel

\* whether a radius appends an entry to Fmodes
FourierOn(opts) == opts.fouriermodes > 0

\* the entry of Fmodes: lists 'a' and 'b' of max(ap_fouriermodes + 1, 2) coefficients
FmodesEntry(opts, flux) ==
    LET len == IF opts.fouriermodes + 1 > 2 THEN opts.fouriermodes + 1 ELSE 2
    IN  [a |-> [m \in 1..len |-> IF m = 1 THEN Fin(flux) ELSE Fin(0)],
         b |-> [m \in 1..len |-> IF m = 1 THEN Fin(flux) ELSE Fin(0)]]

\* what the sampler and the aggregator give at one radius: the aggregated flux
\* of the contour (med) and of the fixed-geometry contour (fix), the scatter,
\* the number of samples and the flux summed inside the radius (tot)
Samples ==
    { [med |-> 40, fix |-> 40, scat |-> 4, n |-> 16, tot |-> 400],
      [med |-> 8,  fix |-> -4, scat |-> 4, n |-> 16, tot |-> 400],
      [med |-> 0,  fix |-> 4,  scat |-> 4, n |-> 16, tot |-> -8] }

\* ap_fouriermodes: -1 stands for a key that is absent
FourierOptions == {-1, 0, 2}

\* the curve-of-growth machine at rest
IdleCOG ==
    /\ cpc = "idle"
    /\ cR = <<>> /\ cSB = <<>> /\ cSBE = <<>> /\ cq = <<>> /\ cqE = <<>>
    /\ cmethod = 0 /\ csym = TRUE
    /\ cres = NoResult
    /\ ccols = [cog |-> <<>>, cogE |-> <<>>]

\* the profile machine at rest
IdleGP ==
    /\ gpc = "idle"
    /\ options = [truncate |-> FALSE, fluxunits |-> "mag", fouriermodes |-> -1,
                  isoband_fixed |-> FALSE, pixscale |-> 1]
    /\ results = [noise |-> 0]
    /\ gR = <<>> /\ gE = <<>> /\ gEe = <<>> /\ gPA = <<>> /\ gPAe = <<>>
    /\ gi = 0 /\ count_neg = 0 /\ medflux = PInf /\ end_prof = 0
    /\ sb = <<>> /\ sbE = <<>> /\ sbfix = <<>> /\ sbfixE = <<>>
    /\ pixels = <<>> /\ cogdirect = <<>> /\ Fmodes = <<>>
    /\ sampler = <<>> /\ isovals = <<>>
    /\ cogres = NoResult
    /\ cog = <<>> /\ cogE = <<>> /\ cogfix = <<>> /\ cogfixE = <<>>
    /\ header = <<>>
    /\ data = <<>>

\* the star finder at rest
IdleSF ==
    /\ sfpc = "idle"
    /\ IMGshape = <<0, 0>>
    /\ fwhm_guess = 1 /\ minsep = 1
    /\ maxstars = [inf |-> TRUE, n |-> 0]
    /\ highpixels = <<>>
    /\ si = 0
    /\ centers = <<>> /\ fwhms = <<>> /\ peaks = <<>>
    /\ verdict = "none"
    /\ badcount = 0
    /\ late = 0
    /\ catalog = <<>>

\* the sampler at rest
IdleIE ==
    /\ epc = "idle"
    /\ eshape = <<0, 0>>
    /\ ec = [x |-> 0, y |-> 0]
    /\ esma = 0 /\ eeps = 0 /\ epa = 0
    /\ emore = FALSE
    /\ eN = 0
    /\ etheta = <<>> /\ eX = <<>> /\ eY = <<>>
    /\ ebox = <<>>
    /\ eflux = <<>>
    /\ eret = <<>>

\* the forced extraction at rest
IdleFE ==
    /\ fpc = "idle"
    /\ fentry = "pipeline"
    /\ fraw = <<>>
    /\ foptions = [pixscale |-> 1, pa_shift |-> 0]
    /\ fheader = <<>>
    /\ force = <<>>
    /\ fargs = [R |-> <<>>, E |-> <<>>, Ee |-> <<>>, PA |-> <<>>, PAe |-> <<>>]
    /\ fcalls = <<>>
    /\ fraised = ""
    /\ ftable = <<>>

\* the entry points at rest
IdleEP ==
    /\ ppc = "idle"
    /\ pentry = ""
    /\ IMG = <<>>
    /\ mask = <<>>
    /\ background = 0
    /\ use_center = [x |-> 0, y |-> 0]
    /\ psf = 0
    /\ dat = <<>>
    /\ preturn = <<>>

\* the radius grid at rest
IdleRG ==
    /\ rpc = "idle"
    /\ roptions = <<>>
    /\ rresults = <<>>
    /\ rshape = <<0, 0>>
    /\ rR = <<>>
    /\ rsteps = <<>>
    /\ rE = <<>>
    /\ rPA = <<>>

\* the growth loop at rest
IdleGL ==
    /\ glpc = "idle"
    /\ glprofile = <<>>
    /\ glR = <<>>
    /\ glflux = <<>>
    /\ glbadcount = 0

\* the profile row at rest
IdlePT ==
    /\ ptpc = "idle"
    /\ ptentry = ""
    /\ ptoptions = <<>>
    /\ ptin = <<>>
    /\ ptrow = <<>>

\* the sigma clipping at rest
IdleSC ==
    /\ scpc = "idle"
    /\ scin = <<>>
    /\ scnsigma = 0
    /\ sccap = 0
    /\ scfirst = <<>>
    /\ scsecond = <<>>

InitGP ==
    /\ IdleCOG
    /\ IdleSF
    /\ IdleIE
    /\ IdleFE
    /\ IdleEP
    /\ IdleRG
    /\ IdleGL
    /\ IdlePT
    /\ IdleSC
    /\ gpc = "loop"
    /\ options \in [truncate : BOOLEAN, fluxunits : {"mag", "intensity"},
                    fouriermodes : FourierOptions, isoband_fixed : BOOLEAN, pixscale : {2}]
    /\ results = [noise |-> 4]
    /\ gR = [j \in 1..NRadii |-> 5 * (j + 1)]
    /\ gE = [j \in 1..NRadii |-> 8]
    /\ gEe = [j \in 1..NRadii |-> 3]
    /\ gPA = [j \in 1..NRadii |-> 1571]
    /\ gPAe = [j \in 1..NRadii |-> 35]
    /\ gi = 0
    /\ count_neg = 0
    /\ medflux = PInf
    /\ end_prof = 0
    /\ sb = <<>> /\ sbE = <<>> /\ sbfix = <<>> /\ sbfixE = <<>>
    /\ pixels = <<>> /\ cogdirect = <<>> /\ Fmodes = <<>>
    /\ sampler = <<>> /\ isovals = <<>>
    /\ cogres = NoResult
    /\ cog = <<>> /\ cogE = <<>> /\ cogfix = <<>> /\ cogfixE = <<>>
    /\ header = <<>>
    /\ data = <<>>

\* one pass of the loop body, lines 47-108
GP_Radius ==
    /\ gpc = "loop"
    /\ gi < Len(gR)
    /\ \E s \in Samples :
        LET band == UseBand(medflux, results.noise, isobandwidth(options, gR[gi + 1]))
            neg == CountNeg(count_neg, s.med)
        IN  /\ sampler' = Append(sampler, IF band THEN "between" ELSE "extract")
            /\ isovals' = Append(isovals, s)
            /\ medflux' = Fin(s.med)
            /\ Fmodes' = IF FourierOn(options) THEN Append(Fmodes, FmodesEntry(options, s.med))
                         ELSE Fmodes
            /\ pixels' = Append(pixels, s.n)
            /\ sb' = Append(sb, SBEntry(options, s.med))
            /\ sbE' = Append(sbE, SBErrEntry(options, s.med, s.scat, s.n))
            /\ sbfix' = Append(sbfix, SBEntry(options, s.fix))
            /\ sbfixE' = Append(sbfixE, SBErrEntry(options, s.fix, s.scat, s.n))
            /\ cogdirect' = Append(cogdirect, CogDirectEntry(options, s.tot))
            /\ count_neg' = neg
            /\ gi' = gi + 1
            /\ IF Truncates(options, neg)
               THEN end_prof' = gi + 1 /\ gpc' = "cog"
               ELSE end_prof' = end_prof /\ gpc' = IF gi + 1 = Len(gR) THEN "cog" ELSE "loop"
    /\ UNCHANGED <<options, results, gR, gE, gEe, gPA, gPAe, cogres, cog, cogE, cogfix,
                   cogfixE, header, data>>
    /\ UNCHANGED <<cogVars, sfVars, ieVars, feVars, epVars, rgVars, glVars, ptVars, scVars>>

\* R[:end_prof]
UpTo(seq, e) == IF e = 0 THEN seq ELSE SubSeq(seq, 1, IF e < Len(seq) THEN e ELSE Len(seq))

\* the draws of the perturbed trials of the two calls; calls that return at
\* their guard draw nothing
TrialDraws(SB, SBfix) ==
    IF Cardinality(SB_CHOOSE(SB)) < 5 /\ Cardinality(SB_CHOOSE(SBfix)) < 5
    THEN {[t \in 1..(NTrials - 1) |-> [zq |-> 0, fb |-> 1]]}
    ELSE {[t \in 1..(NTrials - 1) |-> d] : d \in Draws}

\* the curve of growth, lines 110-144
GP_CurveOfGrowth ==
    /\ gpc = "cog"
    /\ LET R == [j \in 1..Len(UpTo(gR, end_prof)) |-> gR[j] * options.pixscale]
           q == [j \in 1..Len(R) |-> 10 - gE[j]]
           qE == [j \in 1..Len(R) |-> IF gEe[j] < 0 THEN 0 - gEe[j] ELSE gEe[j]]
       IN  IF options.fluxunits = "intensity"
           THEN LET r == fluxdens_to_fluxsum_errorprop(R, sb, sbE, q, qE)
                    rfix == fluxdens_to_fluxsum_errorprop(R, sbfix, sbfixE, q, qE)
                IN  /\ cogres' = r
                    /\ cog' = CogColumnsIntensity(r, Len(gR)).cog
                    /\ cogE' = CogColumnsIntensity(r, Len(gR)).cogE
                    /\ cogfix' = CogColumnsIntensity(rfix, Len(gR)).cog
                    /\ cogfixE' = CogColumnsIntensity(rfix, Len(gR)).cogE
           ELSE \E d \in TrialDraws(sb, sbfix) :
                LET r == SBprof_to_COG_errorprop(R, sb, sbE, q, qE, 0, TRUE, d)
                    rfix == SBprof_to_COG_errorprop(R, sbfix, sbfixE, q, qE, 0, TRUE, d)
                IN  /\ cogres' = r
                    /\ cog' = CogColumns(r, Len(gR)).cog
                    /\ cogE' = CogColumns(r, Len(gR)).cogE
                    /\ cogfix' = CogColumns(rfix, Len(gR)).cog
                    /\ cogfixE' = CogColumns(rfix, Len(gR)).cogE
    /\ gpc' = "table"
    /\ UNCHANGED <<options, results, gR, gE, gEe, gPA, gPAe, gi, count_neg, medflux,
                   end_prof, sb, sbE, sbfix, sbfixE, pixels, cogdirect, Fmodes, sampler,
                   isovals, header, data>>
    /\ UNCHANGED <<cogVars, sfVars, ieVars, feVars, epVars, rgVars, glVars, ptVars, scVars>>

\* the names of the columns, lines 148-159 and 178-181
BaseParams(opts) ==
    IF opts.fluxunits = "intensity"
    THEN <<"R", "I", "I_e", "totflux", "totflux_e", "ellip", "ellip_e", "pa", "pa_e",
           "pixels", "totflux_direct", "I_fix", "I_fix_e", "totflux_fix", "totflux_fix_e">>
    ELSE <<"R", "SB", "SB_e", "totmag", "totmag_e", "ellip", "ellip_e", "pa", "pa_e",
           "pixels", "totmag_direct", "SB_fix", "SB_fix_e", "totmag_fix", "totmag_fix_e">>

\* range(int(ap_fouriermodes + 1)) when the key is present
FourierRange(opts) == IF opts.fouriermodes = -1 THEN {} ELSE 0..opts.fouriermodes

RECURSIVE FourierParams(_, _)
FourierParams(opts, m) ==
    IF m \notin FourierRange(opts) THEN <<>>
    ELSE <<"a" \o ToString(m), "b" \o ToString(m)>> \o FourierParams(opts, m + 1)

\* radians to degrees, in thousandths
Degrees(seq) == [j \in 1..Len(seq) |-> (seq[j] * 180000) \div 3142]

\* the table assembled at lines 161-184
GP_Table ==
    /\ gpc = "table"
    /\ header' = BaseParams(options) \o FourierParams(options, 0)
    /\ data' =
          LET base == BaseParams(options)
              col == <<[j \in 1..Len(UpTo(gR, end_prof)) |-> gR[j] * options.pixscale],
                       sb, sbE, cog, cogE, UpTo(gE, end_prof), UpTo(gEe, end_prof),
                       Degrees(UpTo(gPA, end_prof)), Degrees(UpTo(gPAe, end_prof)),
                       pixels, cogdirect, sbfix, sbfixE, cogfix, cogfixE>>
              names == {base[k] : k \in 1..Len(base)}
                       \cup UNION {{"a" \o ToString(m), "b" \o ToString(m)} : m \in FourierRange(options)}
          IN  [h \in names |->
                  IF \E k \in 1..Len(base) : base[k] = h
                  THEN col[CHOOSE k \in 1..Len(base) : base[k] = h]
                  ELSE LET m == CHOOSE x \in FourierRange(options) :
                                   h \in {"a" \o ToString(x), "b" \o ToString(x)}
                       IN  IF h = "a" \o ToString(m)
                           THEN [j \in 1..Len(Fmodes) |-> Fmodes[j].a[m + 1]]
                           ELSE [j \in 1..Len(Fmodes) |-> Fmodes[j].b[m + 1]]]
    /\ gpc' = "done"
    /\ UNCHANGED <<options, results, gR, gE, gEe, gPA, gPAe, gi, count_neg, medflux,
                   end_prof, sb, sbE, sbfix, sbfixE, pixels, cogdirect, Fmodes, sampler,
                   isovals, cogres, cog, cogE, cogfix, cogfixE>>
    /\ UNCHANGED <<cogVars, sfVars, ieVars, feVars, epVars, rgVars, glVars, ptVars, scVars>>

NextGP == GP_Radius \/ GP_CurveOfGrowth \/ GP_Table

SpecGP == InitGP /\ [][NextGP]_vars

----------------------------------------------------------------------------
\* SpecCOG: the curve of growth of a profile drawn from bounded sets

\* brightness profiles with flux at every radius: flat, declining, rising
SBProfiles == {[j \in 1..NPts |-> Mag(4)],
               [j \in 1..NPts |-> IF j <= 2 THEN Mag(4) ELSE Mag(1)],
               [j \in 1..NPts |-> IF j <= 2 THEN Mag(1) ELSE Mag(4)]}

\* what a radius without a usable brightness holds
BadValues == {Sentinel, NaN}

\* the sets of radii without a usable brightness: none, one, or the innermost
BadSets == {{}} \cup {{j} : j \in 1..NPts} \cup {1..j : j \in 2..NPts}

\* axis-ratio profiles, in tenths: round, flat, and alternating
QProfiles == {[j \in 1..NPts |-> 10], [j \in 1..NPts |-> 2],
              [j \in 1..NPts |-> IF j % 2 = 1 THEN 10 ELSE 2]}

InitCOG ==
    /\ IdleGP
    /\ IdleSF
    /\ IdleIE
    /\ IdleFE
    /\ IdleEP
    /\ IdleRG
    /\ IdleGL
    /\ IdlePT
    /\ IdleSC
    /\ cpc = "input"
    /\ cR = [j \in 1..NPts |-> j]
    /\ \E prof \in SBProfiles, bad \in BadSets, b \in BadValues :
          cSB = [j \in 1..NPts |-> IF j \in bad THEN b ELSE prof[j]]
    /\ cSBE = [j \in 1..NPts |-> IF cSB[j].k = "mag" THEN Fin(100) ELSE Sentinel]
    /\ cq \in QProfiles
    /\ cqE = [j \in 1..NPts |-> 3]
    /\ cmethod \in {0, 1}
    /\ csym \in BOOLEAN
    /\ cres = NoResult
    /\ ccols = [cog |-> <<>>, cogE |-> <<>>]

\* the call of SBprof_to_COG_errorprop that returns at its guard: no trial is drawn
COG_NoResult ==
    /\ cpc = "input"
    /\ Cardinality(SB_CHOOSE(cSB)) < 5
    /\ cres' = SBprof_to_COG_errorprop(cR, cSB, cSBE, cq, cqE, cmethod, csym, <<>>)
    /\ cpc' = "integrated"
    /\ UNCHANGED <<cR, cSB, cSBE, cq, cqE, cmethod, csym, ccols>>
    /\ UNCHANGED <<gpVars, sfVars, ieVars, feVars, epVars, rgVars, glVars, ptVars, scVars>>

\* the call of SBprof_to_COG_errorprop with N = NTrials that passes its guard
COG_Errorprop ==
    /\ cpc = "input"
    /\ Cardinality(SB_CHOOSE(cSB)) >= 5
    /\ \E draws \in [1..(NTrials - 1) -> Draws] :
          cres' = SBprof_to_COG_errorprop(cR, cSB, cSBE, cq, cqE, cmethod, csym, draws)
    /\ cpc' = "integrated"
    /\ UNCHANGED <<cR, cSB, cSBE, cq, cqE, cmethod, csym, ccols>>
    /\ UNCHANGED <<gpVars, sfVars, ieVars, feVars, epVars, rgVars, glVars, ptVars, scVars>>

\* the caller's substitution of sentinels (it asks for symmetric errors)
COG_Substitute ==
    /\ cpc = "integrated"
    /\ csym
    /\ ccols' = CogColumns(cres, Len(cR))
    /\ cpc' = "done"
    /\ UNCHANGED <<cR, cSB, cSBE, cq, cqE, cmethod, csym, cres>>
    /\ UNCHANGED <<gpVars, sfVars, ieVars, feVars, epVars, rgVars, glVars, ptVars, scVars>>

NextCOG == COG_NoResult \/ COG_Errorprop \/ COG_Substitute

SpecCOG == InitCOG /\ [][NextCOG]_vars

----------------------------------------------------------------------------
\* StarFind: the loop over the candidate pixels

\* the squared distance of two points
Dist2(a, b) == (a[1] - b[1]) * (a[1] - b[1]) + (a[2] - b[2]) * (a[2] - b[2])

\* np.any(np.sqrt(np.sum((p - centers)**2, axis = 1)) < minsep*fwhm_guess),
\* the components of p taken in the order given
AnyCloser(p, cs, sep) == \E k \in 1..Len(cs) : Dist2(p, cs[k]) < sep * sep

\* np.any(p < 5*fwhm_guess) or np.any(p > (np.array(IMG.shape) - 5*fwhm_guess)),
\* the components of p compared with those of the shape in the order given
NearEdge(p, shape, fwhm) ==
    \/ p[1] < 5 * fwhm \/ p[2] < 5 * fwhm
    \/ p[1] > shape[1] - 5 * fwhm \/ p[2] > shape[2] - 5 * fwhm

\* line 308: the candidate pixel <<row, column>> against the centers <<x, y>>
NearExisting(pixel, cs, sep) == cs # <<>> /\ AnyCloser(pixel, cs, sep)

\* the refined center taken as <<y, x>> against the centers <<x, y>>
TooCloseTransposed(newcenter, cs, sep) ==
    cs # <<>> /\ AnyCloser(<<newcenter[2], newcenter[1]>>, cs, sep)

\* line 351: the refined center <<x, y>> against the centers <<x, y>>
TooClose(newcenter, cs, sep) == cs # <<>> /\ AnyCloser(newcenter, cs, sep)

\* line 382: len(fwhms) >= maxstars
Reached(n, limit) == ~limit.inf /\ n >= limit.n

\* a growth-loop rule that tolerates no flagged step at all
TooManyBadStrict(count) == count > 0

\* line 369: badcount > 1
TooManyBad(count) == count > 1

\* where the brightest pixel of the window lies, relative to the candidate, in x and y
Offsets == {<<0, 0>>, <<1, 0>>, <<-1, 0>>}

\* what the samplings around a refined center can give: a saturated pixel nearby,
\* an asymmetric core, and the count of asymmetric rings of the growth loop
Outcomes == [saturated : BOOLEAN, asymmetric : BOOLEAN, badcount : 0..2]

\* what becomes of candidate pixel <<row, column>> with the brightest pixel at
\* offset off and the samplings giving out
Verdict(pixel, off, out, cs, shape, fwhm, sep) ==
    IF NearExisting(pixel, cs, sep) THEN "near"
    ELSE IF NearEdge(pixel, shape, fwhm) THEN "edge"
    ELSE IF NearEdge(<<pixel[2] + off[1], pixel[1] + off[2]>>, shape, fwhm) THEN "edge"
    ELSE IF out.saturated THEN "saturated"
    ELSE IF TooClose(<<pixel[2] + off[1], pixel[1] + off[2]>>, cs, sep) THEN "close"
    ELSE IF out.asymmetric THEN "asymmetric"
    ELSE IF TooManyBad(out.badcount) THEN "bad"
    ELSE "accepted"

\* the pixels a call can find above the detection threshold
Pool == {<<4, 6>>, <<5, 5>>, <<5, 7>>, <<5, 8>>, <<6, 5>>, <<8, 8>>, <<8, 9>>, <<7, 12>>}

\* np.argwhere lists the pixels by row, then by column
RECURSIVE argwhere(_)
argwhere(S) ==
    IF S = {} THEN <<>>
    ELSE LET p == CHOOSE x \in S : \A y \in S : x[1] < y[1] \/ (x[1] = y[1] /\ x[2] <= y[2])
         IN  <<p>> \o argwhere(S \ {p})

InitSF ==
    /\ IdleCOG
    /\ IdleGP
    /\ IdleIE
    /\ IdleFE
    /\ IdleEP
    /\ IdleRG
    /\ IdleGL
    /\ IdlePT
    /\ IdleSC
    /\ sfpc = "scan"
    /\ IMGshape \in {<<14, 14>>, <<14, 18>>, <<18, 14>>}
    /\ fwhm_guess = 1
    /\ minsep = 2
    /\ maxstars \in {[inf |-> TRUE, n |-> 0]} \cup {[inf |-> FALSE, n |-> m] : m \in 0..MaxStars}
    /\ \E S \in SUBSET Pool : Cardinality(S) <= NCand /\ highpixels = argwhere(S)
    /\ si = 0
    /\ centers = <<>> /\ fwhms = <<>> /\ peaks = <<>>
    /\ verdict = "none"
    /\ badcount = 0
    /\ late = 0
    /\ catalog = <<>>

\* one pass of the loop body, lines 306-383
StarFind_Candidate ==
    /\ sfpc = "scan"
    /\ si < Len(highpixels)
    /\ \E off \in Offsets, out \in Outcomes :
        LET pixel == highpixels[si + 1]
            v == Verdict(pixel, off, out, centers, IMGshape, fwhm_guess, minsep * fwhm_guess)
        IN  /\ verdict' = v
            /\ badcount' = IF v \in {"bad", "accepted"} THEN out.badcount ELSE badcount
            /\ IF v = "accepted"
               THEN /\ centers' = Append(centers, <<pixel[2] + off[1], pixel[1] + off[2]>>)
                    /\ fwhms' = Append(fwhms, 2 * fwhm_guess)
                    /\ peaks' = Append(peaks, 100)
                    /\ sfpc' = IF Reached(Len(fwhms) + 1, maxstars) \/ si + 1 = Len(highpixels)
                               THEN "return" ELSE "scan"
               ELSE /\ UNCHANGED <<centers, fwhms, peaks>>
                    /\ sfpc' = IF si + 1 = Len(highpixels) THEN "return" ELSE "scan"
    /\ late' = IF Reached(Len(fwhms), maxstars) THEN late + 1 ELSE late
    /\ si' = si + 1
    /\ UNCHANGED <<IMGshape, fwhm_guess, minsep, maxstars, highpixels, catalog>>
    /\ UNCHANGED <<cogVars, gpVars, ieVars, feVars, epVars, rgVars, glVars, ptVars, scVars>>

\* no pixel above the detection threshold: the loop body never runs
StarFind_NoCandidate ==
    /\ sfpc = "scan"
    /\ Len(highpixels) = 0
    /\ sfpc' = "return"
    /\ UNCHANGED <<IMGshape, fwhm_guess, minsep, maxstars, highpixels, si, centers, fwhms,
                   peaks, verdict, badcount, late, catalog>>
    /\ UNCHANGED <<cogVars, gpVars, ieVars, feVars, epVars, rgVars, glVars, ptVars, scVars>>

\* line 401 with at least one accepted center
StarFind_Return ==
    /\ sfpc = "return"
    /\ centers # <<>>
    /\ catalog' = [x |-> [k \in 1..Len(centers) |-> centers[k][1]],
                   y |-> [k \in 1..Len(centers) |-> centers[k][2]],
                   fwhm |-> fwhms, peak |-> peaks]
    /\ sfpc' = "done"
    /\ UNCHANGED <<IMGshape, fwhm_guess, minsep, maxstars, highpixels, si, centers, fwhms,
                   peaks, verdict, badcount, late>>
    /\ UNCHANGED <<cogVars, gpVars, ieVars, feVars, epVars, rgVars, glVars, ptVars, scVars>>

\* line 401 with centers still the empty list: centers[:,0] raises TypeError
StarFind_ReturnEmpty ==
    /\ sfpc = "return"
    /\ centers = <<>>
    /\ sfpc' = "raised"
    /\ UNCHANGED <<IMGshape, fwhm_guess, minsep, maxstars, highpixels, si, centers, fwhms,
                   peaks, verdict, badcount, late, catalog>>
    /\ UNCHANGED <<cogVars, gpVars, ieVars, feVars, epVars, rgVars, glVars, ptVars, scVars>>

NextSF == StarFind_Candidate \/ StarFind_NoCandidate \/ StarFind_Return \/ StarFind_ReturnEmpty

SpecSF == InitSF /\ [][NextSF]_vars

----------------------------------------------------------------------------
\* _iso_extract with a scalar radius (SharedFunctions.py, lines 235-260)

\* largest radius handed to the sampler, in half pixels
MaxSma == 80

Min(a, b) == IF a < b THEN a ELSE b

Max(a, b) == IF a > b THEN a ELSE b

\* np.clip(v, a_min, a_max)
clip(v, a_min, a_max) == Max(a_min, Min(v, a_max))

\* int() of a value in tenths: truncation towards zero
int(v) == IF v >= 0 THEN v \div 10 ELSE 0 - ((0 - v) \div 10)

\* np.rint of a value in tenths: to the nearest integer, halves to the even one
rint(v) ==
    IF v % 10 = 5
    THEN (IF (v \div 10) % 2 = 0 THEN v \div 10 ELSE (v \div 10) + 1)
    ELSE (v + 5) \div 10

\* a sample count whose branch for large radii starts ten samples lower
NsamplesLowBranch(sma) ==
    IF sma < 200 THEN clip((7 * sma) \div 10, 13, 50) ELSE (5 * sma + 3000) \div 100

\* line 235: N for a radius in tenths of a pixel
Nsamples(sma) ==
    IF sma < 200 THEN clip((7 * sma) \div 10, 13, 50) ELSE (5 * sma + 4000) \div 100

\* np.linspace(0, 2*np.pi - 1./N, N), in milliradians
linspace(N) == [k \in 1..N |-> ((k - 1) * (6283 - (1000 \div N))) \div (N - 1)]

\* 1000 sin(a) for a in [0, pi], a in milliradians (Bhaskara's rational form)
SinHalfTurn(a) ==
    (((16 * a * (3142 - a)) \div 40) * 1000) \div ((5 * 3142 * 3142 - 4 * a * (3142 - a)) \div 40)

\* 1000 np.sin(a) and 1000 np.cos(a), a in milliradians
sin(a) ==
    IF a % 6283 <= 3142 THEN SinHalfTurn(a % 6283)
    ELSE 0 - SinHalfTurn(Min((a % 6283) - 3142, 3142))

cos(a) == sin(a + 1571)

\* a product of a length in tenths and a factor in thousandths
Scale(len, f) == IF len * f >= 0 THEN (len * f) \div 1000 ELSE 0 - ((0 - len * f) \div 1000)

\* lines 239-240: the ellipse before rotation
EllipseX(sma, theta) == [k \in 1..Len(theta) |-> Scale(sma, cos(theta[k]))]

EllipseY(sma, eps, theta) ==
    [k \in 1..Len(theta) |-> Scale((sma * (10 - eps)) \div 10, sin(theta[k]))]

\* line 242: rotation by pa
RotateX(X, Y, pa) == [k \in 1..Len(X) |-> Scale(X[k], cos(pa)) - Scale(Y[k], sin(pa))]

RotateY(X, Y, pa) == [k \in 1..Len(X) |-> Scale(X[k], sin(pa)) + Scale(Y[k], cos(pa))]

\* line 243: (theta + pa) % (2*np.pi)
ShiftTheta(theta, pa) == [k \in 1..Len(theta) |-> (theta[k] + pa) % 6283]

\* lines 246-247: box[0], from c['x'] and IMG.shape[0], and box[1], from c['y']
\* and IMG.shape[1]
box(shape, c, sma) ==
    <<<<Max(0, int(c.x - sma - 20)), Min(shape[1], int(c.x + sma + 20))>>,
      <<Max(0, int(c.y - sma - 20)), Min(shape[2], int(c.y + sma + 20))>>>>

\* len(np.arange(n))
arangeLen(n) == Max(0, n)

\* the number of entries a slice lo:hi takes from an axis of n entries
sliceLen(lo, hi, n) ==
    Max(0, clip(IF hi < 0 THEN hi + n ELSE hi, 0, n) - clip(IF lo < 0 THEN lo + n ELSE lo, 0, n))

\* lines 248-250: the two grids given to RectBivariateSpline and the shape of
\* IMG[box[1][0]:box[1][1], box[0][0]:box[0][1]]
SplineGrid(shape, b) ==
    [nx |-> arangeLen(b[2][2] - b[2][1]),
     ny |-> arangeLen(b[1][2] - b[1][1]),
     zrows |-> sliceLen(b[2][1], b[2][2], shape[1]),
     zcols |-> sliceLen(b[1][1], b[1][2], shape[2])]

\* RectBivariateSpline raises ValueError on an empty grid and on data whose
\* shape is not that of the grids
SplineRaises(g) == g.nx = 0 \/ g.ny = 0 \/ g.nx # g.zrows \/ g.ny # g.zcols

\* lines 251-252: where the spline is evaluated, in image coordinates (tenths)
InterpolatedAt(X, Y, c) == [k \in 1..Len(X) |-> [y |-> Y[k] + c.y, x |-> X[k] + c.x]]

\* lines 255-256: the pixel read for each sample, <<row, column>>
NearestPixels(X, Y, c, shape) ==
    [k \in 1..Len(X) |-> [row |-> clip(rint(Y[k] + c.y), 0, shape[1] - 1),
                          col |-> clip(rint(X[k] + c.x), 0, shape[2] - 1)]]

\* image shapes and centers of a call; the center lies inside the image
Shapes == {<<12, 12>>, <<12, 24>>, <<24, 12>>}

Centers == {[x |-> 60, y |-> 60], [x |-> 180, y |-> 60], [x |-> 60, y |-> 180],
            [x |-> 15, y |-> 105]}

InitIE ==
    /\ IdleCOG
    /\ IdleGP
    /\ IdleSF
    /\ IdleFE
    /\ IdleEP
    /\ IdleRG
    /\ IdleGL
    /\ IdlePT
    /\ IdleSC
    /\ epc = "start"
    /\ eshape \in Shapes
    /\ ec \in {c \in Centers : c.x < 10 * eshape[2] /\ c.y < 10 * eshape[1]}
    /\ esma \in {5 * j : j \in 0..MaxSma}
    /\ eeps = 5
    /\ epa \in {0, 785}
    /\ emore \in BOOLEAN
    /\ eN = 0
    /\ etheta = <<>> /\ eX = <<>> /\ eY = <<>>
    /\ ebox = <<>>
    /\ eflux = <<>>
    /\ eret = <<>>

\* lines 235-243: the sample count, the angles and the rotated ellipse
IE_Ellipse ==
    /\ epc = "start"
    /\ eN' = Nsamples(esma)
    /\ etheta' = ShiftTheta(linspace(Nsamples(esma)), epa)
    /\ eX' = RotateX(EllipseX(esma, linspace(Nsamples(esma))),
                     EllipseY(esma, eeps, linspace(Nsamples(esma))), epa)
    /\ eY' = RotateY(EllipseX(esma, linspace(Nsamples(esma))),
                     EllipseY(esma, eeps, linspace(Nsamples(esma))), epa)
    /\ epc' = "ellipse"
    /\ UNCHANGED <<eshape, ec, esma, eeps, epa, emore, ebox, eflux, eret>>
    /\ UNCHANGED <<cogVars, gpVars, sfVars, feVars, epVars, rgVars, glVars, ptVars, scVars>>

\* lines 245-252: sma < 30, interpolation on a box around the ellipse
IE_Interpolate ==
    /\ epc = "ellipse"
    /\ esma < 300
    /\ ebox' = [box |-> box(eshape, ec, esma), grid |-> SplineGrid(eshape, box(eshape, ec, esma))]
    /\ IF SplineRaises(SplineGrid(eshape, box(eshape, ec, esma)))
       THEN epc' = "raised" /\ eflux' = eflux
       ELSE epc' = "sampled" /\ eflux' = InterpolatedAt(eX, eY, ec)
    /\ UNCHANGED <<eshape, ec, esma, eeps, epa, emore, eN, etheta, eX, eY, eret>>
    /\ UNCHANGED <<cogVars, gpVars, sfVars, feVars, epVars, rgVars, glVars, ptVars, scVars>>

\* lines 253-256: sma >= 30, the nearest pixel with clamped indices
IE_Nearest ==
    /\ epc = "ellipse"
    /\ esma >= 300
    /\ eflux' = NearestPixels(eX, eY, ec, eshape)
    /\ epc' = "sampled"
    /\ UNCHANGED <<eshape, ec, esma, eeps, epa, emore, eN, etheta, eX, eY, ebox, eret>>
    /\ UNCHANGED <<cogVars, gpVars, sfVars, feVars, epVars, rgVars, glVars, ptVars, scVars>>

\* lines 257-260
IE_Return ==
    /\ epc = "sampled"
    /\ eret' = IF emore THEN <<eflux, etheta>> ELSE <<eflux>>
    /\ epc' = "returned"
    /\ UNCHANGED <<eshape, ec, esma, eeps, epa, emore, eN, etheta, eX, eY, ebox, eflux>>
    /\ UNCHANGED <<cogVars, gpVars, sfVars, feVars, epVars, rgVars, glVars, ptVars, scVars>>

NextIE == IE_Ellipse \/ IE_Interpolate \/ IE_Nearest \/ IE_Return

SpecIE == InitIE /\ [][NextIE]_vars

----------------------------------------------------------------------------
\* Isophote_Extract_Forced: pipeline_steps/Isophote_Extract.py, lines 349-372,
\* and the older autoprofutils/Isophote_Extract.py, lines 102-119.
\* Numbers are in thousandths: radii in milli-arcsec or milli-pixels,
\* ellipticities in thousandths, angles in milli-degrees or milliradians.

\* largest number of lines after the header line of a forcing file
MaxRows == 3

\* the literals of the forcing files and what float() makes of them
Literals == {<<"10", 10000>>, <<"20", 20000>>, <<"15", 15000>>, <<"0", 0>>,
             <<"0.3", 300>>, <<"0.5", 500>>, <<"0.4", 400>>, <<"1.0", 1000>>,
             <<"30", 30000>>, <<"200", 200000>>, <<"-45", -45000>>,
             <<"0.1", 100>>, <<"0.2", 200>>, <<"5", 5000>>}

\* whether float(d.strip()) returns; it raises ValueError otherwise
IsFloat(d) == \E p \in Literals : p[1] = d

\* float(d.strip())
float(d) == (CHOOSE p \in Literals : p[1] = d)[2]

\* a line of the file: whether it starts with '#', and its comma-separated
\* fields with the blanks stripped
Line(hash, fields) == [hash |-> hash, fields |-> fields]

\* the header lines a file can have
Headers == {<<"R", "ellip", "pa", "ellip_e", "pa_e">>, <<"R", "ellip", "pa">>,
            <<"R", "ellip", "pa", "ellip_e">>, <<"R", "ellip">>}

UnitsLine == Line(FALSE, <<"arcsec", "unitless", "deg", "unitless", "deg">>)

\* the lines a file can have after its header
Rows == {Line(FALSE, <<"10", "0.3", "30", "0.1", "5">>),
         Line(FALSE, <<"20", "0.5", "200", "0.2", "10">>),
         Line(FALSE, <<"0", "1.0", "-45", "0.1", "5">>),
         Line(FALSE, <<"15", "0.4">>),
         Line(FALSE, <<"abc", "0.3", "30", "0.1", "5">>),
         UnitsLine}

\* the files: comment lines, then a header line or none, then up to MaxRows lines
Files ==
    {<<Line(TRUE, <<"# forcing profile">>)>>}
    \cup UNION {{<<Line(FALSE, h)>>, <<Line(FALSE, h), r1>>, <<Line(TRUE, <<"# made by hand">>), Line(FALSE, h), r1>>}
                   : h \in Headers, r1 \in Rows}
    \cup {<<Line(FALSE, h)>> \o rs : h \in Headers, rs \in UNION {[1..n -> Rows] : n \in 2..MaxRows}}

\* lines 351-354: the index of the first line that does not start with '#';
\* 0 when there is none and readfrom stays unbound
readfrom(raw) ==
    IF \A i \in 1..Len(raw) : raw[i].hash THEN 0
    ELSE CHOOSE i \in 1..Len(raw) : ~raw[i].hash /\ \A j \in 1..(i - 1) : raw[j].hash

\* a reading that takes the data from the line right after the header
DataLinesFromNext(raw, rf) == SubSeq(raw, rf + 1, Len(raw))

\* line 357: raw[readfrom+2:]
DataLines(raw, rf) == SubSeq(raw, rf + 2, Len(raw))

\* zip(l.split(','), header): as many pairs as the shorter of the two
zipLen(fields, hdr) == IF Len(fields) < Len(hdr) THEN Len(fields) ELSE Len(hdr)

\* whether line 359 raises ValueError on one of the zipped fields of a line
RowRaises(l, hdr) == \E k \in 1..zipLen(l.fields, hdr) : ~IsFloat(l.fields[k])

\* lines 358-359 for one line: each zipped field appended to its column
AppendRow(frc, l, hdr) ==
    [h \in DOMAIN frc |->
        IF \E k \in 1..zipLen(l.fields, hdr) : hdr[k] = h
        THEN Append(frc[h], float(l.fields[CHOOSE k \in 1..zipLen(l.fields, hdr) : hdr[k] = h]))
        ELSE frc[h]]

\* lines 356-359: the columns after the first n data lines
RECURSIVE ReadRows(_, _, _)
ReadRows(lines, hdr, n) ==
    IF n = 0 THEN [h \in {hdr[k] : k \in 1..Len(hdr)} |-> <<>>]
    ELSE AppendRow(ReadRows(lines, hdr, n - 1), lines[n], hdr)

\* PA_shift_convention(pa, deg = True): the angle convention turned by 90 degrees
PA_shift_convention(pa) == [k \in 1..Len(pa) |-> (pa[k] - 90000) % 180000]

\* x * np.pi/180 on an array of milli-degrees: milliradians
Radians(seq) == [k \in 1..Len(seq) |-> (seq[k] * 3142) \div 180000]

\* np.zeros(n)
zeros(n) == [k \in 1..n |-> 0]

\* a test that takes the uncertainties from the file as soon as one of the two
\* columns is there
HasErrorsEither(frc) == "ellip_e" \in DOMAIN frc \/ "pa_e" \in DOMAIN frc

\* line 363: 'ellip_e' in force and 'pa_e' in force
HasErrors(frc) == "ellip_e" \in DOMAIN frc /\ "pa_e" \in DOMAIN frc

\* the first key that lines 361-372 look up and the dictionary lacks, "" if none
MissingKey(frc) ==
    IF "pa" \notin DOMAIN frc THEN "pa"
    ELSE IF HasErrors(frc) /\ "ellip_e" \notin DOMAIN frc THEN "ellip_e"
    ELSE IF HasErrors(frc) /\ "pa_e" \notin DOMAIN frc THEN "pa_e"
    ELSE IF "R" \notin DOMAIN frc THEN "R"
    ELSE IF "ellip" \notin DOMAIN frc THEN "ellip"
    ELSE ""

\* the first key that lines 118-119 of the older module look up and the
\* dictionary lacks
MissingKeyLegacy(frc) ==
    IF "R" \notin DOMAIN frc THEN "R"
    ELSE IF "ellip" \notin DOMAIN frc THEN "ellip"
    ELSE IF "pa" \notin DOMAIN frc THEN "pa"
    ELSE ""

\* np.array(force['R'])/pixscale
OverPixscale(seq, pixscale) == [k \in 1..Len(seq) |-> seq[k] \div pixscale]

\* (pa + ap_forced_pa_shift) % np.pi, in milliradians
ModPi(seq, shift) == [k \in 1..Len(seq) |-> (seq[k] + shift) % 3142]

\* lines 361-372: the arguments of the _Generate_Profile call
ForcedArgs(frc, opts) ==
    [R |-> OverPixscale(frc["R"], opts.pixscale),
     E |-> frc["ellip"],
     Ee |-> IF HasErrors(frc) THEN frc["ellip_e"] ELSE zeros(Len(frc["R"])),
     PA |-> ModPi(Radians(PA_shift_convention(frc["pa"])), opts.pa_shift),
     PAe |-> IF HasErrors(frc) THEN Radians(frc["pa_e"]) ELSE zeros(Len(frc["R"]))]

\* lines 117-119 of the older module: the arguments of the Generate_Profile call
ForcedArgsLegacy(frc, opts) ==
    [R |-> OverPixscale(frc["R"], opts.pixscale),
     E |-> frc["ellip"],
     Ee |-> <<>>,
     PA |-> Radians(frc["pa"]),
     PAe |-> <<>>]

InitFE ==
    /\ IdleCOG
    /\ IdleGP
    /\ IdleSF
    /\ IdleIE
    /\ IdleEP
    /\ IdleRG
    /\ IdleGL
    /\ IdlePT
    /\ IdleSC
    /\ fpc = "read"
    /\ fentry \in {"pipeline", "legacy"}
    /\ fraw \in Files
    /\ foptions \in [pixscale : {2}, pa_shift : {0, 1571}]
    /\ fheader = <<>>
    /\ force = <<>>
    /\ fargs = [R |-> <<>>, E |-> <<>>, Ee |-> <<>>, PA |-> <<>>, PAe |-> <<>>]
    /\ fcalls = <<>>
    /\ fraised = ""
    /\ ftable = <<>>

\* lines 349-359 (104-114 of the older module): the file read into columns
FE_Read ==
    /\ fpc = "read"
    /\ IF readfrom(fraw) = 0
       THEN /\ fpc' = "raised" /\ fraised' = "NameError"
            /\ UNCHANGED <<fheader, force>>
       ELSE /\ fheader' = fraw[readfrom(fraw)].fields
            /\ IF \E n \in 1..Len(DataLines(fraw, readfrom(fraw))) :
                      RowRaises(DataLines(fraw, readfrom(fraw))[n], fraw[readfrom(fraw)].fields)
               THEN /\ fpc' = "raised" /\ fraised' = "ValueError"
                    /\ force' = force
               ELSE /\ fpc' = "call" /\ fraised' = fraised
                    /\ force' = ReadRows(DataLines(fraw, readfrom(fraw)),
                                         fraw[readfrom(fraw)].fields,
                                         Len(DataLines(fraw, readfrom(fraw))))
    /\ UNCHANGED <<fentry, fraw, foptions, fargs, fcalls, ftable>>
    /\ UNCHANGED <<cogVars, gpVars, sfVars, ieVars, epVars, rgVars, glVars, ptVars, scVars>>

\* lines 361-372: the geometry converted and handed to _Generate_Profile
FE_Call ==
    /\ fpc = "call"
    /\ fentry = "pipeline"
    /\ IF MissingKey(force) # ""
       THEN fpc' = "raised" /\ fraised' = "KeyError: " \o MissingKey(force) /\ fargs' = fargs
       ELSE fpc' = "sample" /\ fraised' = fraised /\ fargs' = ForcedArgs(force, foptions)
    /\ UNCHANGED <<fentry, fraw, foptions, fheader, force, fcalls, ftable>>
    /\ UNCHANGED <<cogVars, gpVars, sfVars, ieVars, epVars, rgVars, glVars, ptVars, scVars>>

\* lines 117-119 of the older module: the geometry handed to Generate_Profile
FE_CallLegacy ==
    /\ fpc = "call"
    /\ fentry = "legacy"
    /\ IF MissingKeyLegacy(force) # ""
       THEN fpc' = "raised" /\ fraised' = "KeyError: " \o MissingKeyLegacy(force) /\ fargs' = fargs
       ELSE fpc' = "sample" /\ fraised' = fraised /\ fargs' = ForcedArgsLegacy(force, foptions)
    /\ UNCHANGED <<fentry, fraw, foptions, fheader, force, fcalls, ftable>>
    /\ UNCHANGED <<cogVars, gpVars, sfVars, ieVars, epVars, rgVars, glVars, ptVars, scVars>>

\* one radius of the loop of _Generate_Profile (lines 47-76) or of
\* Simple_Isophote_Extract (lines 34-42 of the older module): the sampler is
\* called with R[i], E[i] and PA[i]
FE_Sample ==
    /\ fpc = "sample"
    /\ Len(fcalls) < Len(fargs.R)
    /\ IF Len(fcalls) + 1 > Len(fargs.E) \/ Len(fcalls) + 1 > Len(fargs.PA)
       THEN fpc' = "raised" /\ fraised' = "IndexError" /\ fcalls' = fcalls
       ELSE /\ fcalls' = Append(fcalls, [R |-> fargs.R[Len(fcalls) + 1],
                                         E |-> fargs.E[Len(fcalls) + 1],
                                         PA |-> fargs.PA[Len(fcalls) + 1]])
            /\ fpc' = fpc /\ fraised' = fraised
    /\ UNCHANGED <<fentry, fraw, foptions, fheader, force, fargs, ftable>>
    /\ UNCHANGED <<cogVars, gpVars, sfVars, ieVars, epVars, rgVars, glVars, ptVars, scVars>>

\* after the last radius: the axis-ratio scale handed to the curve of growth
\* (line 130), the R column (line 162) and the geometry columns of the table
\* (lines 166-169)
FE_Table ==
    /\ fpc = "sample"
    /\ Len(fcalls) = Len(fargs.R)
    /\ ftable' = IF fentry = "legacy" THEN <<>>
                 ELSE [R |-> [k \in 1..Len(fargs.R) |-> fargs.R[k] * foptions.pixscale],
                       qE |-> [k \in 1..Len(fargs.Ee) |->
                                  IF fargs.Ee[k] < 0 THEN 0 - fargs.Ee[k] ELSE fargs.Ee[k]],
                       ellip |-> fargs.E,
                       ellip_e |-> fargs.Ee,
                       pa |-> Degrees(fargs.PA),
                       pa_e |-> Degrees(fargs.PAe)]
    /\ fpc' = "done"
    /\ UNCHANGED <<fentry, fraw, foptions, fheader, force, fargs, fcalls, fraised>>
    /\ UNCHANGED <<cogVars, gpVars, sfVars, ieVars, epVars, rgVars, glVars, ptVars, scVars>>

NextFE == FE_Read \/ FE_Call \/ FE_CallLegacy \/ FE_Sample \/ FE_Table

SpecFE == InitFE /\ [][NextFE]_vars

----------------------------------------------------------------------------
\* The image and the mask across the entry points: Isophote_Extract,
\* Isophote_Extract_Forced and Isophote_Extract_Photutils of
\* pipeline_steps/Isophote_Extract.py, and Generate_Profile, Isophote_Extract
\* and Isophote_Extract_Forced of the older autoprofutils/Isophote_Extract.py.
\* Pixels are indexed from 0; the center and the psf are in tenths of a pixel.

\* the side of the square image
NPix == 3

Pixels == (0..(NPix - 1)) \X (0..(NPix - 1))

\* the extraction steps of the pipeline, which return the image with the profile
PipelineSteps == {"Isophote_Extract", "Isophote_Extract_Forced", "Isophote_Extract_Photutils"}

\* the functions of the older module, which return the profile only
OlderFunctions == {"autoprofutils.Generate_Profile", "autoprofutils.Isophote_Extract",
                   "autoprofutils.Isophote_Extract_Forced"}

\* the indices a slice lo:hi selects on an axis of n entries
SliceIndices(lo, hi, n) ==
    {i \in 0..(n - 1) : /\ clip(IF lo < 0 THEN lo + n ELSE lo, 0, n) <= i
                        /\ i < clip(IF hi < 0 THEN hi + n ELSE hi, 0, n)}

\* lines 162-163 of the older module:
\* mask[int(x - 10*psf):int(x + 10*psf), int(y - 10*psf):int(y + 10*psf)] = False
ClearCenter(m, c, p) ==
    [q \in Pixels |->
        IF /\ q[1] \in SliceIndices(int(c.x - 10 * p), int(c.x + 10 * p), NPix)
           /\ q[2] \in SliceIndices(int(c.y - 10 * p), int(c.y + 10 * p), NPix)
        THEN FALSE ELSE m[q]]

\* IMG - background: a new array
Subtract(img, bg) == [q \in Pixels |-> img[q] - bg]

InitEP ==
    /\ IdleCOG
    /\ IdleGP
    /\ IdleSF
    /\ IdleIE
    /\ IdleFE
    /\ IdleRG
    /\ IdleGL
    /\ IdlePT
    /\ IdleSC
    /\ ppc = "called"
    /\ pentry \in PipelineSteps \cup OlderFunctions
    /\ IMG \in {[q \in Pixels |-> 7], [q \in Pixels |-> 3 + q[1] + 2 * q[2]]}
    /\ mask \in {[q \in Pixels |-> q \in s] : s \in SUBSET {<<0, 0>>, <<1, 1>>, <<2, 2>>}}
    /\ background \in {0, 2}
    /\ use_center = [x |-> 15, y |-> 15]
    /\ psf \in {1, 3}
    /\ dat = <<>>
    /\ preturn = <<>>

\* the geometry is prepared; the older Isophote_Extract unmasks the center in
\* the mask kept in results (lines 161-164 of the older module)
EP_Geometry ==
    /\ ppc = "called"
    /\ ppc' = "profile"
    /\ mask' = IF pentry = "autoprofutils.Isophote_Extract"
               THEN ClearCenter(mask, use_center, psf) ELSE mask
    /\ UNCHANGED <<pentry, IMG, background, use_center, psf, dat, preturn>>
    /\ UNCHANGED <<cogVars, gpVars, sfVars, ieVars, feVars, rgVars, glVars, ptVars, scVars>>

\* dat = IMG - results['background'] (lines 23-31 and 697), in the older module
\* IMG - background_level, masked if any pixel is masked (lines 24-29); the
\* isophotes are then sampled from dat
EP_Background ==
    /\ ppc = "profile"
    /\ ppc' = "sampled"
    /\ dat' = [data |-> Subtract(IMG, background),
               mask |-> IF pentry \in OlderFunctions /\ \E q \in Pixels : mask[q]
                        THEN mask ELSE <<>>]
    /\ UNCHANGED <<pentry, IMG, mask, background, use_center, psf, preturn>>
    /\ UNCHANGED <<cogVars, gpVars, sfVars, ieVars, feVars, rgVars, glVars, ptVars, scVars>>

\* return IMG, profile (lines 372, 626, 768); the older functions return the
\* profile alone (lines 100, 117, 167)
EP_Return ==
    /\ ppc = "sampled"
    /\ ppc' = "returned"
    /\ preturn' = IF pentry \in PipelineSteps THEN <<IMG, "profile">> ELSE <<"profile">>
    /\ UNCHANGED <<pentry, IMG, mask, background, use_center, psf, dat>>
    /\ UNCHANGED <<cogVars, gpVars, sfVars, ieVars, feVars, rgVars, glVars, ptVars, scVars>>

NextEP == EP_Geometry \/ EP_Background \/ EP_Return

SpecEP == InitEP /\ [][NextEP]_vars

----------------------------------------------------------------------------
\* Isophote_Extract: pipeline_steps/Isophote_Extract.py, lines 587-612: the
\* radius grid and the geometry given to each radius. Radii and the psf are in
\* thousandths of a pixel, ellipticities in thousandths, angles in
\* milliradians. An option of -1 stands for a key that is absent.

\* the longest radius grid followed
MaxGrid == 100

\* max(IMG.shape)/np.sqrt(2)
halfdiagonal(shape) == (Max(shape[1], shape[2]) * 1000000) \div 1414

\* line 590: the first radius
FirstRadius(opts, res) ==
    IF opts.sampleinitR # -1 THEN opts.sampleinitR ELSE Min(1000, res.psf \div 2)

\* line 591: the test of the while loop on the last radius
Continues(last, opts, res, shape) ==
    /\ \/ /\ (opts.sampleendR # -1 => last < opts.sampleendR)
          /\ last < 3 * res.fitR[Len(res.fitR)]
       \/ opts.extractfull
    /\ last < halfdiagonal(shape)

\* line 593: whether the 'geometric-linear' style takes its linear branch
TakesLinearStep(R, opts, res) ==
    /\ Len(R) > 1
    /\ R[Len(R)] - R[Len(R) - 1] >=
           (IF opts.samplelinearscale # -1 THEN opts.samplelinearscale ELSE 3 * res.psf)

\* lines 592-600: the radius appended, with the kind of step taken
NextRadius(R, opts, res) ==
    IF opts.samplestyle = "geometric-linear"
    THEN IF TakesLinearStep(R, opts, res)
         THEN [kind |-> "linear",
               R |-> R[Len(R)] + (IF opts.samplelinearscale # -1
                                  THEN opts.samplelinearscale ELSE res.psf \div 2)]
         ELSE [kind |-> "geometric", R |-> (R[Len(R)] * 11) \div 10]
    ELSE IF opts.samplestyle = "linear"
    THEN [kind |-> "linear",
          R |-> R[Len(R)] + (IF opts.samplelinearscale # -1
                             THEN opts.samplelinearscale ELSE res.psf \div 2)]
    ELSE [kind |-> "geometric", R |-> (R[Len(R)] * 11) \div 10]

\* np.interp(x, xp, fp): linear between the points, the end values outside
interp(x, xp, fp) ==
    IF x <= xp[1] THEN fp[1]
    ELSE IF x >= xp[Len(xp)] THEN fp[Len(fp)]
    ELSE LET k == CHOOSE j \in 1..(Len(xp) - 1) : xp[j] <= x /\ x < xp[j + 1]
         IN  fp[k] + ((fp[k + 1] - fp[k]) * (x - xp[k])) \div (xp[k + 1] - xp[k])

\* 1000 np.arctan(t/1000) for t from 0 to 1000: t/(1 + 0.281 t^2)
arctanUnit(t) == (t * 1000) \div (1000 + (281 * t * t) \div 1000000)

\* 1000 np.arctan(t/1000): odd, and pi/2 - arctan(1/t) beyond 1
arctan(t) ==
    IF t < 0
    THEN 0 - (IF 0 - t <= 1000 THEN arctanUnit(0 - t)
              ELSE 1571 - arctanUnit(1000000 \div (0 - t)))
    ELSE IF t <= 1000 THEN arctanUnit(t)
    ELSE 1571 - arctanUnit(1000000 \div t)

\* _inv_x_to_eps: 0.5 + np.tan(np.pi*((eps - 0.02)/0.96 - 0.5))
inv_x_to_eps(eps) ==
    500 + (1000 * sin((3142 * (((eps - 20) * 1000) \div 960 - 500)) \div 1000))
          \div cos((3142 * (((eps - 20) * 1000) \div 960 - 500)) \div 1000)

\* _x_to_eps: 0.02 + 0.96*(0.5 + np.arctan(x - 0.5)/np.pi)
x_to_eps(x) == 20 + (960 * (500 + (arctan(x - 500) * 1000) \div 3142)) \div 1000

\* _x_to_pa: x % np.pi
x_to_pa(x) == x % 3142

\* lines 605-607: the ellipticity of a radius
EllipticityAt(R_i, res) ==
    IF R_i < res.fitR[1] THEN res.ellip[1]
    ELSE IF R_i > res.fitR[Len(res.fitR)] THEN res.ellip[Len(res.ellip)]
    ELSE x_to_eps(interp(R_i, res.fitR, [k \in 1..Len(res.ellip) |-> inv_x_to_eps(res.ellip[k])]))

\* line 610: ((arctan(s/c) + pi*(c < 0)) % (2 pi))/2, s and c in thousandths;
\* a zero c with a positive or negative s gives arctan of an infinite ratio
HalfAngle(s, c) ==
    (((IF c = 0 THEN (IF s < 0 THEN -1571 ELSE 1571)
       ELSE arctan(IF (s < 0) = (c < 0) THEN ((IF s < 0 THEN 0 - s ELSE s) * 1000) \div (IF c < 0 THEN 0 - c ELSE c)
                   ELSE 0 - (((IF s < 0 THEN 0 - s ELSE s) * 1000) \div (IF c < 0 THEN 0 - c ELSE c))))
      + (IF c < 0 THEN 3142 ELSE 0)) % 6283) \div 2

\* lines 608-612: the position angle of a radius
PositionAngleAt(R_i, res) ==
    IF R_i < res.fitR[1] THEN x_to_pa(res.pa[1])
    ELSE IF R_i > res.fitR[Len(res.fitR)] THEN x_to_pa(res.pa[Len(res.pa)])
    ELSE x_to_pa(HalfAngle(interp(R_i, res.fitR, [k \in 1..Len(res.pa) |-> sin(2 * res.pa[k])]),
                           interp(R_i, res.fitR, [k \in 1..Len(res.pa) |-> cos(2 * res.pa[k])])))

InitRG ==
    /\ IdleCOG
    /\ IdleGP
    /\ IdleSF
    /\ IdleIE
    /\ IdleFE
    /\ IdleEP
    /\ IdleGL
    /\ IdlePT
    /\ IdleSC
    /\ rpc = "grid"
    /\ roptions \in [samplestyle : {"geometric", "linear", "geometric-linear"},
                     sampleinitR : {-1, 0, 2000},
                     sampleendR : {-1, 20000},
                     extractfull : BOOLEAN,
                     samplelinearscale : {-1, 2000}]
    /\ rresults \in [psf : {1000, 2000}, fitR : {<<3000, 12000>>},
                     ellip : {<<300, 500>>}, pa : {<<524, 5760>>}]
    /\ rshape \in {<<48, 64>>, <<20, 20>>}
    /\ rR = <<FirstRadius(roptions, rresults)>>
    /\ rsteps = <<>>
    /\ rE = <<>>
    /\ rPA = <<>>

\* one pass of the while loop, lines 591-600
RG_Step ==
    /\ rpc = "grid"
    /\ Continues(rR[Len(rR)], roptions, rresults, rshape)
    /\ Len(rR) < MaxGrid
    /\ rR' = Append(rR, NextRadius(rR, roptions, rresults).R)
    /\ rsteps' = Append(rsteps, NextRadius(rR, roptions, rresults).kind)
    /\ UNCHANGED <<rpc, roptions, rresults, rshape, rE, rPA>>
    /\ UNCHANGED <<cogVars, gpVars, sfVars, ieVars, feVars, epVars, glVars, ptVars, scVars>>

\* the loop is over: the geometry of every radius, lines 605-612, handed to
\* _Generate_Profile with the grid
RG_Geometry ==
    /\ rpc = "grid"
    /\ ~Continues(rR[Len(rR)], roptions, rresults, rshape)
    /\ rE' = [k \in 1..Len(rR) |-> EllipticityAt(rR[k], rresults)]
    /\ rPA' = [k \in 1..Len(rR) |-> PositionAngleAt(rR[k], rresults)]
    /\ rpc' = "done"
    /\ UNCHANGED <<roptions, rresults, rshape, rR, rsteps>>
    /\ UNCHANGED <<cogVars, gpVars, sfVars, ieVars, feVars, epVars, glVars, ptVars, scVars>>

NextRG == RG_Step \/ RG_Geometry

SpecRG == InitRG /\ [][NextRG]_vars

----------------------------------------------------------------------------
\* StarFind: SharedFunctions.py, lines 358-372: the growth loop run on one
\* candidate that passed the earlier tests. The image is circular about the
\* candidate: glprofile[r + 1] is the value of the pixels r pixels away, and
\* the last entry is the edge of the image. Radii are in thousandths of a
\* pixel.

\* the pixels between the candidate and the edge of the image
MaxRing == 3

\* the longest growth followed
MaxGrowth == 40

\* the pixel values of the modelled images
Fluxes == {-2, 0, 3, 5}

\* np.median(_iso_extract(IMG, sma, 0., 0., c)): the median of the pixels on
\* the circle of radius sma; past the boundary of the image _iso_extract
\* reads the values at the edge (line 255)
RingFlux(profile, sma) == profile[Min((sma + 500) \div 1000, Len(profile) - 1) + 1]

\* line 361: flux[-1] > (flux[0]/2)
AboveHalf(flux) == flux[Len(flux)] * 2 > flux[1]

InitGL ==
    /\ IdleCOG
    /\ IdleGP
    /\ IdleSF
    /\ IdleIE
    /\ IdleFE
    /\ IdleEP
    /\ IdleRG
    /\ IdlePT
    /\ IdleSC
    /\ glpc = "grow"
    /\ glprofile \in [1..(MaxRing + 1) -> Fluxes]
    /\ glflux = <<RingFlux(glprofile, 0)>>
    /\ glR = <<500>>
    /\ glbadcount = 0

\* one pass of the while loop, lines 361-367; the Fourier test of the ring
\* counts it as bad or not
GL_Grow ==
    /\ glpc = "grow"
    /\ AboveHalf(glflux)
    /\ Len(glR) < MaxGrowth
    /\ glR' = Append(glR, (glR[Len(glR)] * 11) \div 10)
    /\ \E bad \in BOOLEAN : glbadcount' = glbadcount + (IF bad THEN 1 ELSE 0)
    /\ glflux' = Append(glflux, RingFlux(glprofile, (glR[Len(glR)] * 11) \div 10))
    /\ UNCHANGED <<glpc, glprofile>>
    /\ UNCHANGED <<cogVars, gpVars, sfVars, ieVars, feVars, epVars, rgVars, ptVars, scVars>>

\* the loop is over, lines 369-379: the candidate is dropped after more than
\* one bad ring and kept otherwise
GL_Leave ==
    /\ glpc = "grow"
    /\ ~AboveHalf(glflux)
    /\ glpc' = IF glbadcount > 1 THEN "dropped" ELSE "kept"
    /\ UNCHANGED <<glprofile, glR, glflux, glbadcount>>
    /\ UNCHANGED <<cogVars, gpVars, sfVars, ieVars, feVars, epVars, rgVars, ptVars, scVars>>

NextGL == GL_Grow \/ GL_Leave

SpecGL == InitGL /\ [][NextGL]_vars

----------------------------------------------------------------------------
\* One row of the profile table as written by _Generate_Profile
\* (pipeline_steps/Isophote_Extract.py, lines 91-103), by the older
\* Generate_Profile (autoprofutils/Isophote_Extract.py, lines 53-96) and by
\* Isophote_Extract_Photutils (pipeline_steps/Isophote_Extract.py, lines
\* 731-757). Fluxes are integers, the entries are numbers in thousandths.

\* x / d on floats, d an integer: a zero divisor gives an infinity, or NaN
\* under a zero
DivNum(x, d) ==
    IF x.k = "nan" THEN NaN
    ELSE IF x.k = "inf" THEN [k |-> "inf", v |-> IF d < 0 THEN 0 - x.v ELSE x.v]
    ELSE IF d = 0 THEN (IF x.v = 0 THEN NaN ELSE [k |-> "inf", v |-> IF x.v < 0 THEN -1 ELSE 1])
    ELSE IF (x.v < 0) = (d < 0)
    THEN Fin((IF x.v < 0 THEN 0 - x.v ELSE x.v) \div (IF d < 0 THEN 0 - d ELSE d))
    ELSE Fin(0 - ((IF x.v < 0 THEN 0 - x.v ELSE x.v) \div (IF d < 0 THEN 0 - d ELSE d)))

\* 2.5 * err / (flux * np.log(10)), err a float and flux an integer
MagError(err, flux) ==
    IF err.k = "fin" /\ flux # 0 THEN DivNum(Fin(err.v * 2500), flux * 2303)
    ELSE DivNum(err, flux)

\* rms / np.sqrt(npix)
PerPixel(rms, npix) == DivNum(Fin(rms * 1000), sqrt(npix))

\* the closing pass of Isophote_Extract_Photutils over the entries of a row
Finite(x) == IF isfinite(x) THEN x ELSE Sentinel

\* lines 91-103 of _Generate_Profile; the direct cumulative entry has no
\* error column there
PipelineRow(opts, in) ==
    [SB |-> SBEntry(opts, in.med),
     SB_e |-> SBErrEntry(opts, in.med, in.scat, in.n),
     direct |-> CogDirectEntry(opts, in.tflux)]

\* lines 53-56 of Generate_Profile: the brightness before the error is known
OlderSB(in) == Finite(L_to_mag(Fin(in.med)))

\* lines 58-64: the error of the brightness
OlderSBE(in) == Abs(MagError(Fin((in.scat * 1000) \div (2 * sqrt(in.n))), in.med))

\* line 72: whether the curve of growth of the profile is None; in.others
\* counts the other rows of the profile with a finite brightness below 50
OlderNoTable(in) ==
    in.others + (IF isfinite(OlderSBE(in)) /\ Lt(OlderSB(in), Fin(50000)) THEN 1 ELSE 0) < 5

\* lines 84-96 of Generate_Profile
OlderRow(in) ==
    [SB |-> IF isfinite(OlderSBE(in)) THEN OlderSB(in) ELSE Sentinel,
     SB_e |-> Finite(OlderSBE(in)),
     direct |-> L_to_mag(Fin(in.tflux)),
     direct_e |-> Abs(MagError(PerPixel(in.rms, in.npix), in.tflux))]

\* lines 731-757 of Isophote_Extract_Photutils
PhotutilsRow(opts, in) ==
    IF opts.fluxunits = "intensity"
    THEN [SB |-> Finite(Fin((in.med * 1000) \div (opts.pixscale * opts.pixscale))),
          SB_e |-> Finite(Fin(in.scat * 1000)),
          direct |-> Finite(Fin(in.tflux * 1000)),
          direct_e |-> Finite(PerPixel(in.rms, in.npix))]
    ELSE [SB |-> Finite(L_to_mag(Fin(in.med \div (opts.pixscale * opts.pixscale)))),
          SB_e |-> Finite(MagError(Fin(in.scat * 1000), in.intens)),
          direct |-> Finite(L_to_mag(Fin(in.tflux))),
          direct_e |-> Finite(MagError(PerPixel(in.rms, in.npix), in.tflux))]

InitPT ==
    /\ IdleCOG
    /\ IdleGP
    /\ IdleSF
    /\ IdleIE
    /\ IdleFE
    /\ IdleEP
    /\ IdleRG
    /\ IdleGL
    /\ IdleSC
    /\ ptpc = "row"
    /\ ptentry \in {"_Generate_Profile", "Generate_Profile", "Isophote_Extract_Photutils"}
    /\ ptoptions \in [fluxunits : {"mag", "intensity"}, pixscale : {1}]
    /\ ptin \in [med : {-4, 0, 9}, intens : {0, 9}, tflux : {-4, 0, 9},
                 scat : {0, 2}, rms : {0, 2}, n : {16}, npix : {0, 4},
                 others : {3, 5}]
    /\ ptrow = <<>>

\* _Generate_Profile appends the entries of a radius
PT_Pipeline ==
    /\ ptpc = "row"
    /\ ptentry = "_Generate_Profile"
    /\ ptrow' = PipelineRow(ptoptions, ptin)
    /\ ptpc' = "table"
    /\ UNCHANGED <<ptentry, ptoptions, ptin>>
    /\ UNCHANGED <<cogVars, gpVars, sfVars, ieVars, feVars, epVars, rgVars, glVars, scVars>>

\* Generate_Profile writes the row, or returns without a table when the
\* curve of growth is None
PT_Older ==
    /\ ptpc = "row"
    /\ ptentry = "Generate_Profile"
    /\ IF OlderNoTable(ptin)
       THEN /\ ptpc' = "none"
            /\ ptrow' = ptrow
       ELSE /\ ptpc' = "table"
            /\ ptrow' = OlderRow(ptin)
    /\ UNCHANGED <<ptentry, ptoptions, ptin>>
    /\ UNCHANGED <<cogVars, gpVars, sfVars, ieVars, feVars, epVars, rgVars, glVars, scVars>>

\* Isophote_Extract_Photutils appends the entries of an isophote and replaces
\* the ones that are not finite
PT_Photutils ==
    /\ ptpc = "row"
    /\ ptentry = "Isophote_Extract_Photutils"
    /\ ptrow' = PhotutilsRow(ptoptions, ptin)
    /\ ptpc' = "table"
    /\ UNCHANGED <<ptentry, ptoptions, ptin>>
    /\ UNCHANGED <<cogVars, gpVars, sfVars, ieVars, feVars, epVars, rgVars, glVars, scVars>>

NextPT == PT_Pipeline \/ PT_Older \/ PT_Photutils

SpecPT == InitPT /\ [][NextPT]_vars

----------------------------------------------------------------------------
\* Sigma clipping of the samples of an isophote, as _Generate_Profile asks for
\* it (pipeline_steps/Isophote_Extract.py, lines 58-60, options at 520-546).
\* The clipping code itself is not in the source tree: it is modelled on the
\* description of the options and of the robust aggregator. Samples are
\* numbers in thousandths.

\* the samples of the longest isophote clipped
NSamp == 4

\* the sample values of the modelled isophotes
SampleValues == {1, 2, 10, 100}

\* the robust sigma of the samples: half the 16-84 range
RobustSigma(col) == Half(Sub(quantile(col, 840000), quantile(col, 160000)))

\* median + nsigma x sigma
ClipLimit(col, nsigma) == Fin(Num(median(col)).v + nsigma * RobustSigma(col).v)

\* one iteration: the samples above the limit are removed
ClipPass(col, nsigma) == SelectSeq(col, LAMBDA x : Le(x, ClipLimit(col, nsigma)))

\* a clip that stops after its first iteration whatever the cap is
SclipStopsAfterOne(i, cap, col, nsigma) == i >= 1 \/ ClipPass(col, nsigma) = col

\* the end of the iterations: the cap is reached or nothing more is removed
SclipStops(i, cap, col, nsigma) == i >= cap \/ ClipPass(col, nsigma) = col

\* the samples left by the clip after i iterations on col
RECURSIVE Sclip(_, _, _, _)
Sclip(col, nsigma, cap, i) ==
    IF SclipStops(i, cap, col, nsigma) THEN col
    ELSE Sclip(ClipPass(col, nsigma), nsigma, cap, i + 1)

InitSC ==
    /\ IdleCOG
    /\ IdleGP
    /\ IdleSF
    /\ IdleIE
    /\ IdleFE
    /\ IdleEP
    /\ IdleRG
    /\ IdleGL
    /\ IdlePT
    /\ scpc = "samples"
    /\ \E n \in 1..NSamp : scin \in [1..n -> {Fin(1000 * v) : v \in SampleValues}]
    /\ scnsigma \in {1, 5}
    /\ sccap \in {1, 3, 10}
    /\ scfirst = <<>>
    /\ scsecond = <<>>

\* the samples are clipped
SC_Clip ==
    /\ scpc = "samples"
    /\ scfirst' = Sclip(scin, scnsigma, sccap, 0)
    /\ scpc' = "clipped"
    /\ UNCHANGED <<scin, scnsigma, sccap, scsecond>>
    /\ UNCHANGED <<cogVars, gpVars, sfVars, ieVars, feVars, epVars, rgVars, glVars, ptVars>>

\* the clipped samples are clipped again
SC_Reclip ==
    /\ scpc = "clipped"
    /\ scsecond' = Sclip(scfirst, scnsigma, sccap, 0)
    /\ scpc' = "reclipped"
    /\ UNCHANGED <<scin, scnsigma, sccap, scfirst>>
    /\ UNCHANGED <<cogVars, gpVars, sfVars, ieVars, feVars, epVars, rgVars, glVars, ptVars>>

NextSC == SC_Clip \/ SC_Reclip

SpecSC == InitSC /\ [][NextSC]_vars

----------------------------------------------------------------------------
\* Properties of _Generate_Profile (SpecGP)

C2_BandChosenAnewAtEachRadius ==
    \A k \in 1..(Len(sampler) - 1) :
        sampler[k] = "between" =>
            (sampler[k + 1] = "between"
                <=> (isovals[k].med <= 2 * results.noise
                     /\ isobandwidth(options, gR[k + 1]) >= 500))

\* a band-sampled radius followed by a contour-sampled one
C2_Witness ==
    \E k \in 1..(Len(sampler) - 1) :
        sampler[k] = "between" /\ sampler[k + 1] = "extract" /\ isovals[k].med > 2 * results.noise

\* C2 as stated: after a band-sampled radius every later radius is band-sampled
C2_BandIsPermanent ==
    \A k \in 1..Len(sampler) : \A m \in k..Len(sampler) :
        sampler[k] = "between" => sampler[m] = "between"

\* C3 as stated: every column of 'prof data' named in 'prof header' is as long
\* as the R column
C3_EveryColumnAsLongAsR ==
    gpc = "done" =>
        \A k \in 1..Len(header) : Len(data[header[k]]) = Len(data["R"])

\* C4, as the code has it: for a radius whose aggregated flux is non-positive,
\* the brightness and its uncertainty are the sentinel 99.999 in mag units, but
\* in intensity units they are the raw flux over pixscale^2 and the raw scatter
\* over sqrt(n); the fixed-geometry columns follow the fixed-geometry flux.
C4_SentinelInMagUnitsOnly ==
    \A k \in 1..Len(isovals) :
        LET s == isovals[k]
            area == options.pixscale * options.pixscale
        IN  /\ s.med <= 0 =>
                 IF options.fluxunits = "mag"
                 THEN sb[k] = Fin(99999) /\ sbE[k] = Fin(99999)
                 ELSE sb[k] = Fin(s.med \div area) /\ sbE[k] = Fin(s.scat \div sqrt(s.n))
            /\ s.fix <= 0 =>
                 IF options.fluxunits = "mag"
                 THEN sbfix[k] = Fin(99999) /\ sbfixE[k] = Fin(99999)
                 ELSE sbfix[k] = Fin(s.fix \div area) /\ sbfixE[k] = Fin(s.scat \div sqrt(s.n))

\* a non-positive radius in intensity units, recorded with its raw values
C4_Witness ==
    \E k \in 1..Len(isovals) :
        /\ options.fluxunits = "intensity"
        /\ isovals[k].fix < 0 /\ sbfix[k].v < 0 /\ sbfix[k].v > -99
        /\ sbfixE[k].v > 0 /\ sbfixE[k].v < 99

\* C4 as stated: a non-positive radius holds the sentinel (99.999, or -99.999
\* in intensity units) for the brightness and for its uncertainty
C4_SentinelInBothUnits ==
    \A k \in 1..Len(isovals) :
        /\ isovals[k].med <= 0 =>
               sb[k] \in {Fin(99999), Fin(-99999)} /\ sbE[k] \in {Fin(99999), Fin(-99999)}
        /\ isovals[k].fix <= 0 =>
               sbfix[k] \in {Fin(99999), Fin(-99999)} /\ sbfixE[k] \in {Fin(99999), Fin(-99999)}

\* C5: the curve of growth reports no result exactly when fewer than 5 radii
\* have a finite brightness below 50 (mag units), and the cumulative column and
\* its uncertainty column are then len(R) entries of the sentinel: 99.999 in mag
\* units, -99.999 in intensity units.
C5_NoResultIffFewPoints ==
    gpc \in {"table", "done"} =>
        /\ options.fluxunits = "mag" =>
               (cogres.none <=>
                    Cardinality({j \in 1..Len(sb) : sb[j].k \in {"fin", "mag"}
                                                    /\ Lt(sb[j], Fin(50000))}) < 5)
        /\ cogres.none =>
               LET fill == IF options.fluxunits = "mag" THEN Fin(99999) ELSE Fin(-99999)
               IN  /\ cog = [j \in 1..Len(gR) |-> fill]
                   /\ cogE = [j \in 1..Len(gR) |-> fill]

\* a call in mag units with a sentinel brightness among its radii and no result
C5_Witness ==
    /\ gpc = "done" /\ options.fluxunits = "mag" /\ ~options.truncate
    /\ cogres.none
    /\ \E j \in 1..Len(sb) : sb[j] = Fin(99999)
    /\ cog = [j \in 1..Len(gR) |-> Fin(99999)]

\* C6 as stated: in mag units the cumulative column and its uncertainty column
\* hold no NaN and no infinity, and a radius excluded from the integration
\* holds 99.999 in both
C6_CumulativeColumnsFinite ==
    (gpc = "done" /\ options.fluxunits = "mag") =>
        \A j \in 1..Len(cog) :
            /\ isfinite(cog[j]) /\ isfinite(cogE[j])
            /\ (j > Len(sb) \/ j \notin SB_CHOOSE(sb)) =>
                   (cog[j] = Fin(99999) /\ cogE[j] = Fin(99999))

----------------------------------------------------------------------------
\* Properties of SBprof_to_COG and SBprof_to_COG_errorprop (SpecCOG)

\* C7, as the code has it: the central profile is the unperturbed first trial,
\* COG_results[0], at every radius; the lower and upper uncertainties are
\* measured from the median over the trials.
C7_ProfileIsFirstTrial ==
    (cpc # "input" /\ ~cres.none) =>
        /\ cres.profile = cres.results[1]
        /\ ~csym =>
               \A j \in 1..Len(cR) :
                   /\ cres.lower[j] = Sub(median(Column(cres.results, j)),
                                          quantile(Column(cres.results, j), 158655))
                   /\ cres.upper[j] = Sub(quantile(Column(cres.results, j), 841345),
                                          median(Column(cres.results, j)))

\* a result whose central profile differs from the median over the trials
C7_Witness ==
    /\ cpc = "integrated" /\ ~cres.none /\ ~csym
    /\ \E j \in 1..Len(cR) :
           /\ median(Column(cres.results, j)).k = "fin"
           /\ Num(cres.profile[j]) # median(Column(cres.results, j))

\* C7 as stated: the central profile is the median over the trials at every radius
C7_ProfileIsMedian ==
    (cpc # "input" /\ ~cres.none) =>
        \A j \in 1..Len(cR) : Num(cres.profile[j]) = median(Column(cres.results, j))

\* C8 as stated: with increasing radii, a positive flux density at every radius
\* and axis ratios in (0, 1], the cumulative flux of the unperturbed profile
\* does not decrease from a radius to the next, for method 0 and for method 1
C8_CumulativeFluxNonDecreasing ==
    (cpc # "input" /\ ~cres.none /\ SB_CHOOSE(cSB) = 1..Len(cR)
        /\ \A j \in 1..Len(cR) : cSB[j].k = "mag" /\ cq[j] > 0 /\ cq[j] <= 10) =>
        \A j \in 1..(Len(cR) - 1) :
            /\ cres.results[1][j].k = "mag" /\ cres.results[1][j + 1].k = "mag"
            /\ cres.results[1][j].v <= cres.results[1][j + 1].v

----------------------------------------------------------------------------
\* Properties of StarFind (SpecSF)

\* C9: the list of accepted centers only grows by appending, and a center is
\* appended only if it lies at least minsep x fwhm_guess from every center
\* accepted before it: of two sources closer than that the one met first in
\* scan order stays and the later one is not accepted, and every pair of
\* accepted centers keeps that separation.
C9_AcceptedCentersKeepApart ==
    [][\/ centers' = centers
       \/ /\ Len(centers') = Len(centers) + 1
          /\ SubSeq(centers', 1, Len(centers)) = centers
          /\ \A k \in 1..Len(centers) :
                 Dist2(centers'[Len(centers')], centers[k])
                     >= (minsep * fwhm_guess) * (minsep * fwhm_guess)]_vars

\* a candidate refined to within minsep x fwhm_guess of an accepted center and
\* turned down, the accepted center still in place
C9_Witness ==
    /\ verdict = "close" /\ Len(centers) >= 1 /\ si >= 2
    /\ \E k \in 1..Len(centers) :
           \E off \in Offsets :
               Dist2(<<highpixels[si][2] + off[1], highpixels[si][1] + off[2]>>, centers[k])
                   < (minsep * fwhm_guess) * (minsep * fwhm_guess)

\* C10 as stated: never more than maxstars accepted detections, and no
\* candidate examined once maxstars detections have been accepted
C10_AtMostMaxstars ==
    ~maxstars.inf => (Len(centers) <= maxstars.n /\ late = 0)

\* C11: a candidate that went through the growth loop (it passed the edge,
\* separation, saturation and core-symmetry checks) is accepted exactly when
\* at most one step of the loop was flagged (badcount <= 1); an accepted
\* candidate adds one entry to each of centers, fwhms and peaks, and a
\* candidate that is not accepted leaves the three lists as they were.
C11_OneFlaggedStepTolerated ==
    [][si' = si + 1 =>
          /\ verdict' \in {"bad", "accepted"} => (verdict' = "accepted" <=> badcount' <= 1)
          /\ verdict' = "accepted" =>
                 /\ Len(centers') = Len(centers) + 1
                 /\ Len(fwhms') = Len(fwhms) + 1
                 /\ Len(peaks') = Len(peaks) + 1
          /\ verdict' # "accepted" =>
                 centers' = centers /\ fwhms' = fwhms /\ peaks' = peaks]_vars

\* a star accepted with exactly one flagged step of the growth loop, not the
\* first candidate of the scan
C11_Witness ==
    /\ verdict = "accepted" /\ badcount = 1
    /\ si >= 2 /\ Len(centers) = 1 /\ Len(fwhms) = 1 /\ Len(peaks) = 1

\* C12 as stated: every accepted center <<x, y>> has 5 fwhm_guess <= x <=
\* ncols - 5 fwhm_guess and 5 fwhm_guess <= y <= nrows - 5 fwhm_guess
C12_AcceptedAwayFromEdges ==
    \A k \in 1..Len(centers) :
        /\ 5 * fwhm_guess <= centers[k][1] /\ centers[k][1] <= IMGshape[2] - 5 * fwhm_guess
        /\ 5 * fwhm_guess <= centers[k][2] /\ centers[k][2] <= IMGshape[1] - 5 * fwhm_guess

----------------------------------------------------------------------------
\* Properties of _iso_extract (SpecIE)

\* C13: for a scalar radius R >= 0 the sample count N depends only on R: it is
\* int(7R) clipped to [13, 50] for R < 20 and int(0.5R + 40) for R >= 20, at
\* least 13, and not smaller than the count of any smaller radius; the angle
\* and flux sequences, and the returned ones, all have length N.
C13_SampleCountBounds ==
    epc \notin {"idle", "start"} =>
        /\ eN >= 13
        /\ esma < 200 =>
               eN = (IF (7 * esma) \div 10 < 13 THEN 13
                     ELSE IF (7 * esma) \div 10 > 50 THEN 50 ELSE (7 * esma) \div 10)
        /\ esma >= 200 => eN = (esma + 800) \div 20
        /\ \A r \in 0..esma : Nsamples(r) <= eN
        /\ Len(etheta) = eN /\ Len(eX) = eN /\ Len(eY) = eN
        /\ epc \in {"sampled", "returned"} => Len(eflux) = eN
        /\ epc = "returned" =>
               /\ Len(eret[1]) = eN
               /\ emore => Len(eret[2]) = eN

\* a call at R = 20, where the count passes from the clipped branch to the
\* linear one, that returned both sequences
C13_Witness ==
    /\ epc = "returned" /\ emore /\ esma = 200 /\ eN = 50
    /\ Len(eret[1]) = 50 /\ Len(eret[2]) = 50

\* C14 as stated: the sampler never aborts on out-of-bounds geometry; for
\* sma >= 30 every row index is in [0, rows - 1] and every column index in
\* [0, cols - 1]; for sma < 30 the box is a non-empty rectangle with its x-range
\* inside [0, cols] and its y-range inside [0, rows], and the grids given to the
\* spline have the size of the data
C14_NeverOutOfBounds ==
    /\ epc # "raised"
    /\ (epc \in {"sampled", "returned"} /\ esma >= 300) =>
           \A k \in 1..Len(eflux) :
               /\ eflux[k].row >= 0 /\ eflux[k].row <= eshape[1] - 1
               /\ eflux[k].col >= 0 /\ eflux[k].col <= eshape[2] - 1
    /\ (epc \in {"sampled", "returned"} /\ esma < 300) =>
           /\ 0 <= ebox.box[1][1] /\ ebox.box[1][1] < ebox.box[1][2]
           /\ ebox.box[1][2] <= eshape[2]
           /\ 0 <= ebox.box[2][1] /\ ebox.box[2][1] < ebox.box[2][2]
           /\ ebox.box[2][2] <= eshape[1]
           /\ ebox.grid.nx = ebox.grid.zrows /\ ebox.grid.ny = ebox.grid.zcols

----------------------------------------------------------------------------
\* Properties of Isophote_Extract_Forced (SpecFE)

\* C15 as stated: the sampler is never called with an ellipticity of 1 or more,
\* nor with a radius that is not positive.
C15_DegenerateGeometryRefused ==
    \A k \in 1..Len(fcalls) : fcalls[k].E < 1000 /\ fcalls[k].R > 0

\* C16 as stated: when the forcing file has no header line, or its header lacks
\* R, ellip or pa, or one of the lines read as data holds a field that is not a
\* number or has fewer fields than the header, no isophote is sampled and the
\* extraction does not complete.
C16_MalformedFileFailsFirst ==
    (\/ readfrom(fraw) = 0
     \/ \E c \in {"R", "ellip", "pa"} :
            \A k \in 1..Len(fraw[readfrom(fraw)].fields) : fraw[readfrom(fraw)].fields[k] # c
     \/ \E n \in (readfrom(fraw) + 2)..Len(fraw) :
            \/ Len(fraw[n].fields) < Len(fraw[readfrom(fraw)].fields)
            \/ \E k \in 1..Len(fraw[n].fields) : ~IsFloat(fraw[n].fields[k]))
    => (fcalls = <<>> /\ fpc # "done")

\* C17: once the file is read and the profile call is made, there is one radius
\* for each line from the second line after the header line on (the line right
\* after the header is skipped), in file order, the radius being the R field
\* over the pixel scale; where every such line has all the fields of the header
\* the ellipticities are the ellip fields and there are as many angles; and at
\* the end the sampler has been called once for each of them, in that order.
C17_OneRadiusPerDataLine ==
    fpc \in {"sample", "done"} =>
        LET rf == readfrom(fraw)
            first == rf + 2
            n == IF Len(fraw) < first THEN 0 ELSE Len(fraw) - first + 1
            col(c) == CHOOSE k \in 1..Len(fraw[rf].fields) : fraw[rf].fields[k] = c
        IN  /\ Len(fargs.R) = n
            /\ \A k \in 1..n :
                   fargs.R[k] = float(fraw[first + k - 1].fields[col("R")]) \div foptions.pixscale
            /\ (\A k \in 1..n : Len(fraw[first + k - 1].fields) >= Len(fraw[rf].fields))
                   => /\ Len(fargs.E) = n
                      /\ Len(fargs.PA) = n
                      /\ \A k \in 1..n :
                             fargs.E[k] = float(fraw[first + k - 1].fields[col("ellip")])
            /\ fpc = "done" =>
                   /\ Len(fcalls) = n
                   /\ \A k \in 1..n : /\ fcalls[k].R = fargs.R[k]
                                      /\ fcalls[k].E = fargs.E[k]
                                      /\ fcalls[k].PA = fargs.PA[k]

\* a file of a header line, a units line and two lines of numbers has been
\* extracted: two sampler calls, at 10/2 and 20/2 pixels
C17_Witness ==
    /\ fpc = "done"
    /\ Len(fraw) = 4
    /\ fraw[2] = UnitsLine
    /\ Len(fcalls) = 2
    /\ fcalls[1].R = 5000
    /\ fcalls[2].R = 10000
    /\ fcalls[1].E = 300
    /\ fcalls[2].E = 500

\* C17 as stated: every line after the header line supplies one radius.
C17_OneRadiusPerLineAfterHeader ==
    fpc \in {"sample", "done"} => Len(fargs.R) = Len(fraw) - readfrom(fraw)

\* C18: in the pipeline step, a file that lacks ellip_e or pa_e never fails on
\* the missing column; the profile call gets zeros for both uncertainties, one
\* per radius, and the table's ellip_e and pa_e and the axis-ratio scale given
\* to the curve of growth are all 0; a file with both columns gets the ellip_e
\* fields as they are and the pa_e fields turned to radians, and the table's
\* ellip_e column holds the fields of the file.
C18_GeometryUncertainties ==
    fentry = "pipeline" =>
        /\ fraised \notin {"KeyError: ellip_e", "KeyError: pa_e"}
        /\ fpc \in {"sample", "done"} =>
               LET rf == readfrom(fraw)
                   has(c) == \E k \in 1..Len(fraw[rf].fields) : fraw[rf].fields[k] = c
                   col(c) == CHOOSE k \in 1..Len(fraw[rf].fields) : fraw[rf].fields[k] = c
               IN  IF has("ellip_e") /\ has("pa_e")
                   THEN (\A n \in (rf + 2)..Len(fraw) : Len(fraw[n].fields) >= Len(fraw[rf].fields))
                        => /\ Len(fargs.Ee) = Len(fargs.R)
                           /\ Len(fargs.PAe) = Len(fargs.R)
                           /\ \A k \in 1..Len(fargs.R) :
                                  /\ fargs.Ee[k] = float(fraw[rf + 1 + k].fields[col("ellip_e")])
                                  /\ fargs.PAe[k] = (float(fraw[rf + 1 + k].fields[col("pa_e")]) * 3142) \div 180000
                           /\ fpc = "done" => /\ ftable.ellip_e = fargs.Ee
                                              /\ ftable.qE = fargs.Ee
                   ELSE /\ Len(fargs.Ee) = Len(fargs.R)
                        /\ Len(fargs.PAe) = Len(fargs.R)
                        /\ \A k \in 1..Len(fargs.R) : fargs.Ee[k] = 0 /\ fargs.PAe[k] = 0
                        /\ fpc = "done" =>
                               /\ Len(ftable.ellip_e) = Len(fargs.R)
                               /\ Len(ftable.pa_e) = Len(fargs.R)
                               /\ \A k \in 1..Len(fargs.R) :
                                      ftable.qE[k] = 0 /\ ftable.ellip_e[k] = 0 /\ ftable.pa_e[k] = 0

\* a file with an ellip_e column of 0.1 and 0.2 but no pa_e column has been
\* extracted at two radii, and the table's uncertainties are zeros
C18_Witness ==
    /\ fpc = "done"
    /\ fentry = "pipeline"
    /\ fheader = <<"R", "ellip", "pa", "ellip_e">>
    /\ force["ellip_e"] = <<100, 200>>
    /\ Len(fcalls) = 2
    /\ ftable.ellip_e = <<0, 0>>
    /\ ftable.pa_e = <<0, 0>>

\* C19 as stated: every position angle handed to the sampler lies in [0, pi),
\* and every entry of the table's pa column in [0, 180).
C19_PositionAngleCanonical ==
    /\ \A k \in 1..Len(fcalls) : 0 <= fcalls[k].PA /\ fcalls[k].PA < 3142
    /\ (fpc = "done" /\ fentry = "pipeline") =>
           \A k \in 1..Len(ftable.pa) : 0 <= ftable.pa[k] /\ ftable.pa[k] < 180000

----------------------------------------------------------------------------
\* Properties of the entry points (SpecEP)

\* C20 as stated: no step of any entry point changes the caller's image or the
\* mask held in results, and the image a pipeline step returns is the input.
C20_ImageAndMaskUntouched ==
    [][/\ IMG' = IMG
       /\ mask' = mask
       /\ (ppc' = "returned" /\ pentry \in PipelineSteps) => preturn'[1] = IMG]_vars

----------------------------------------------------------------------------
\* Further properties of StarFind (SpecSF)

\* C30 as stated: StarFind never fails at its return, and the catalog it
\* returns holds x, y, fwhm and peak of one length, also when no candidate was
\* accepted.
C30_CatalogAlwaysReturned ==
    /\ sfpc # "raised"
    /\ sfpc = "done" => /\ Len(catalog.x) = Len(catalog.y)
                        /\ Len(catalog.x) = Len(catalog.fwhm)
                        /\ Len(catalog.x) = Len(catalog.peak)

----------------------------------------------------------------------------
\* Further properties of _Generate_Profile (SpecGP)

----------------------------------------------------------------------------
\* Further properties of Isophote_Extract_Forced (SpecFE)

\* C26 as stated: the R column of the table of a forced extraction is in
\* strictly increasing order, whatever the forcing file.
C26_RadiiStrictlyIncreasing ==
    (fpc = "done" /\ fentry = "pipeline") =>
        \A k \in 1..(Len(ftable.R) - 1) : ftable.R[k] < ftable.R[k + 1]

----------------------------------------------------------------------------
\* Properties of the radius grid of Isophote_Extract (SpecRG)

\* C24: with the 'geometric-linear' style, once the loop has taken one linear
\* step no later step of the grid is geometric, whether ap_samplelinearscale
\* is given or left to its default.
C24_LinearOnceLinear ==
    roptions.samplestyle = "geometric-linear" =>
        \A i \in DOMAIN rsteps : \A j \in DOMAIN rsteps :
            (i < j /\ rsteps[i] = "linear") => rsteps[j] = "linear"

\* C25: when the grid is handed on, every radius smaller than one PSF has
\* ellipticity 0, and every radius beyond the outermost fitted radius has the
\* ellipticity and the position angle of the outermost fitted isophote.
C25_CircularInsidePsfFrozenOutside ==
    rpc = "done" =>
        \A k \in DOMAIN rR :
            /\ rR[k] < rresults.psf => rE[k] = 0
            /\ rR[k] > rresults.fitR[Len(rresults.fitR)] =>
                   /\ rE[k] = rresults.ellip[Len(rresults.ellip)]
                   /\ rPA[k] % 3142 = rresults.pa[Len(rresults.pa)] % 3142

\* C28: the radius-grid loop ends for every option setting and image size, and
\* the last radius it leaves exceeds the half-diagonal of the image by no more
\* than the last step. The test of the loop reads the last radius only and
\* fails from the half-diagonal on, so the loop ends exactly when every pass
\* leaves a larger last radius than it found.
C28_GridLoopEnds ==
    /\ [][RG_Step => rR'[Len(rR')] > rR[Len(rR)]]_vars
    /\ [](rpc = "done" /\ Len(rR) > 1 =>
              rR[Len(rR) - 1] < halfdiagonal(rshape))

----------------------------------------------------------------------------
\* Properties of the growth loop of StarFind (SpecGL)

\* C29: the growth loop ends for every image and candidate, a central flux of
\* zero or below and a flux that never falls to half the central value inside
\* the image included, and the radius and flux lists have the same length at
\* every test of the loop. Past the edge of the image the flux of a ring no
\* longer changes, so the loop ends exactly when its test fails at the latest
\* on the first ring past the edge.
C29_GrowthLoopEnds ==
    /\ (glpc = "grow" /\ glR[Len(glR)] > 1000 * (Len(glprofile) - 1) + 500) =>
           ~AboveHalf(glflux)
    /\ Len(glR) = Len(glflux)

----------------------------------------------------------------------------
\* Properties of the rows of the profile table (SpecPT)

\* C21: in a row of a returned table the brightness, its error and the direct
\* cumulative entries are never NaN or infinite, whether the row is written by
\* _Generate_Profile, Generate_Profile or Isophote_Extract_Photutils.
C21_RowEntriesFinite ==
    ptpc = "table" => \A column \in DOMAIN ptrow : isfinite(ptrow[column])

----------------------------------------------------------------------------
\* Properties of the sigma clipping (SpecSC)

====
